---- MODULE Spec2Model ----
(***************************************************************************)
(* otak-aws: the diagram interchange codec (src/src/utils/compression.ts)  *)
(* and the containment / hierarchy resolver with the interactive handlers  *)
(* that use it (src/src/App.tsx).                                          *)
(*                                                                         *)
(* Four specifications share this module:                                  *)
(*   CodecSpec     optimize / restore / compress / decompress              *)
(*   ResolverSpec  the pure hierarchy predicates on arbitrary Groups       *)
(*   Spec          the board: drag, drop, remove, undo from an empty board *)
(*   LoadedSpec    remove, connect, undo on boards loaded from a link      *)
(***************************************************************************)
EXTENDS Integers, Sequences, FiniteSets, TLC

VARIABLES
    codec,        \* the codec under test: input data, text, oracle choices, result
    resolver,     \* the resolver under test: a Groups collection, a call, its return
    emitter,      \* the emitters under test: a Diagram, exportFormat, the text copied
    parser,       \* the DSL parser under test: the text pasted, the collections built
    boardItems,   \* useState<ServiceItem[]>      (App.tsx:44)
    containers,   \* useState<ContainerItem[]>    (App.tsx:45)
    connections,  \* useState<Connection[]>       (App.tsx:46)
    draggedItem,  \* useState<DraggedItem | null> (App.tsx:43)
    undoHistory,  \* useState<HistoryState[]>     (App.tsx:86)
    isUndoing,    \* useState(false)              (App.tsx:87)
    connectionStart, \* useState(null)           (App.tsx:49)
    timers,       \* callbacks handed to setTimeout and not yet run
    clock,        \* Date.now(), as far as ids and history timestamps read it
    lastOp        \* the handler that ran last, and what it decided

vars == <<codec, resolver, emitter, parser, boardItems, containers, connections, draggedItem,
          undoHistory, isUndoing, connectionStart, timers, clock, lastOp>>

boardVars == <<boardItems, containers, connections, draggedItem,
               undoHistory, isUndoing, connectionStart, timers, clock, lastOp>>

(***************************************************************************)
(* JavaScript values.  An object is a function from its own keys to their  *)
(* values; a key that is missing reads as undefined.  String-valued fields *)
(* hold strings, with two reserved strings for undefined and null;         *)
(* number-valued fields (NumKeys) hold integers and are absent when        *)
(* undefined.                                                              *)
(***************************************************************************)
UNDEF == "<undefined>"
NULL == "<null>"

NumKeys == {"x", "y", "width", "height", "timestamp", "zoomLevel"}

Get(o, k) == IF k \in DOMAIN o THEN o[k] ELSE UNDEF

\* JavaScript truthiness of a string-or-undefined-or-null value
Truthy(v) == v \notin {UNDEF, NULL, ""}

\* truthiness of a number-valued key: a missing key and 0 are falsy
TruthyNum(o, k) == k \in DOMAIN o /\ o[k] # 0

IsWhite(ch) == ch \in {" ", "\t", "\n"}

RECURSIVE TrimLeft(_)
TrimLeft(s) ==
    IF Len(s) > 0 /\ IsWhite(SubSeq(s, 1, 1)) THEN TrimLeft(SubSeq(s, 2, Len(s))) ELSE s

RECURSIVE TrimRight(_)
TrimRight(s) ==
    IF Len(s) > 0 /\ IsWhite(SubSeq(s, Len(s), Len(s)))
    THEN TrimRight(SubSeq(s, 1, Len(s) - 1)) ELSE s

\* String.prototype.trim
Trim(s) == TrimRight(TrimLeft(s))

MinOf(S) == CHOOSE m \in S : \A n \in S : m <= n

\* the object o with the key k added when cond holds: if (cond) { o.k = v }
With(o, cond, k, v) == IF cond THEN (k :> v) @@ o ELSE o

\* Array.prototype.map
Map(arr, F(_)) == [i \in 1..Len(arr) |-> F(arr[i])]

\* the outcome of a call that may throw
Ok(v) == [threw |-> FALSE, value |-> <<v>>]
Threw == [threw |-> TRUE, value |-> <<>>]
NullResult == [threw |-> FALSE, value |-> <<>>]

(***************************************************************************)
(* optimizeDataForCompression (compression.ts:22-97)                       *)
(***************************************************************************)
\* variant: the parent reference is not copied
optimizeItemWithoutParent(item) ==
    LET optimizedItem == [id |-> item.id, name |-> item.name, color |-> item.color,
                          category |-> item.category, x |-> item.x, y |-> item.y,
                          type |-> item.type]
    IN  With(optimizedItem,
             Truthy(Get(item, "customName")) /\ Get(item, "customName") # item.name,
             "customName", Get(item, "customName"))

optimizeItem(item) ==
    LET optimizedItem == [id |-> item.id, name |-> item.name, color |-> item.color,
                          category |-> item.category, x |-> item.x, y |-> item.y,
                          type |-> item.type]
        withName == With(optimizedItem,
                         Truthy(Get(item, "customName")) /\ Get(item, "customName") # item.name,
                         "customName", Get(item, "customName"))
    IN  With(withName, Truthy(Get(item, "parentContainerId")),
             "parentContainerId", Get(item, "parentContainerId"))

\* variant: the border style is not copied
optimizeContainerWithoutBorder(container) ==
    LET optimizedContainer == [id |-> container.id, name |-> container.name,
                               color |-> container.color, x |-> container.x,
                               y |-> container.y, width |-> container.width,
                               height |-> container.height, type |-> container.type]
    IN  With(optimizedContainer, Truthy(Get(container, "parentContainerId")),
             "parentContainerId", Get(container, "parentContainerId"))

\* variant: a Group without a border style is given "solid"
optimizeContainerDefaultingBorder(container) ==
    LET optimizedContainer == [id |-> container.id, name |-> container.name,
                               color |-> container.color, x |-> container.x,
                               y |-> container.y, width |-> container.width,
                               height |-> container.height, type |-> container.type]
        withBorder == With(optimizedContainer, Get(container, "borderStyle") # "solid",
                           "borderStyle",
                           IF Truthy(Get(container, "borderStyle"))
                           THEN Get(container, "borderStyle") ELSE "solid")
    IN  With(withBorder, Truthy(Get(container, "parentContainerId")),
             "parentContainerId", Get(container, "parentContainerId"))

optimizeContainer(container) ==
    LET optimizedContainer == [id |-> container.id, name |-> container.name,
                               color |-> container.color, x |-> container.x,
                               y |-> container.y, width |-> container.width,
                               height |-> container.height, type |-> container.type]
        withBorder == With(optimizedContainer,
                           Truthy(Get(container, "borderStyle"))
                               /\ Get(container, "borderStyle") # "solid",
                           "borderStyle", Get(container, "borderStyle"))
    IN  With(withBorder, Truthy(Get(container, "parentContainerId")),
             "parentContainerId", Get(container, "parentContainerId"))

\* variant: the label is tested without being trimmed
optimizeConnectionUntrimmed(connection) ==
    LET optimizedConnection == [id |-> connection.id, from |-> connection.from,
                                to |-> connection.to]
    IN  With(optimizedConnection, Truthy(Get(connection, "label")),
             "label", Get(connection, "label"))

optimizeConnection(connection) ==
    LET optimizedConnection == [id |-> connection.id, from |-> connection.from,
                                to |-> connection.to]
    IN  With(optimizedConnection,
             Truthy(Get(connection, "label")) /\ Truthy(Trim(Get(connection, "label"))),
             "label", Get(connection, "label"))

optimizeDataForCompression(data) ==
    LET optimized == [version |-> data.version,
                      timestamp |-> data.timestamp,
                      boardItems |-> Map(data.boardItems, optimizeItem),
                      containers |-> Map(data.containers, optimizeContainer),
                      connections |-> Map(data.connections, optimizeConnection)]
    IN  With(optimized,
             "settings" \in DOMAIN data /\ TruthyNum(data.settings, "zoomLevel")
                 /\ data.settings.zoomLevel # 100,
             "settings", [zoomLevel |-> data.settings.zoomLevel])

(***************************************************************************)
(* restoreDataFromOptimized (compression.ts:104-126).  The argument is any *)
(* parsed JSON value: reading a property of null throws, and so does       *)
(* calling .map on a collection that is missing.                           *)
(***************************************************************************)
JsObject(o) == [type |-> "object", obj |-> o]
JsNull == [type |-> "null", obj |-> <<>>]
JsNumber == [type |-> "number", obj |-> <<>>]

ArrayKeys == {"boardItems", "containers", "connections"}

\* a || b on string values
OrElse(v, default) == IF Truthy(v) THEN v ELSE default

restoreItem(item) ==
    ("customName" :> OrElse(Get(item, "customName"), UNDEF))
    @@ ("parentContainerId" :> OrElse(Get(item, "parentContainerId"), NULL))
    @@ item

restoreContainer(container) ==
    ("borderStyle" :> OrElse(Get(container, "borderStyle"), "solid"))
    @@ ("parentContainerId" :> OrElse(Get(container, "parentContainerId"), NULL))
    @@ container

restoreConnection(connection) ==
    ("label" :> OrElse(Get(connection, "label"), "")) @@ connection

restoreDataFromOptimized(optimizedData) ==
    IF optimizedData.type = "null" THEN Threw
    ELSE LET o == optimizedData.obj
         IN  IF ~(ArrayKeys \subseteq DOMAIN o) THEN Threw
             ELSE Ok(With([version |-> Get(o, "version"),
                           boardItems |-> Map(o.boardItems, restoreItem),
                           containers |-> Map(o.containers, restoreContainer),
                           connections |-> Map(o.connections, restoreConnection),
                           settings |-> [zoomLevel |->
                               IF "settings" \in DOMAIN o
                                  /\ TruthyNum(o.settings, "zoomLevel")
                               THEN o.settings.zoomLevel ELSE 100]],
                          "timestamp" \in DOMAIN o, "timestamp", Get(o, "timestamp")))

(***************************************************************************)
(* Texts.  A plain text is a JSON document (an object written as its       *)
(* members in order after any leading blanks, or a literal) or some other  *)
(* run of characters.  An encoded text is what the URL carries: the        *)
(* compressor's output for a plain text, the base64 of a plain text, or    *)
(* raw characters.                                                         *)
(***************************************************************************)
JsonText(ms) == [t |-> "json-object", pad |-> "", ms |-> ms]
\* the same JSON document written after leading blanks, which JSON.parse skips
Padded(text, blanks) == [text EXCEPT !.pad = blanks]
JsonNullText == [t |-> "json-null"]
JsonNumberText == [t |-> "json-number"]
Chars(s) == [t |-> "chars", s |-> s]
Nothing == [t |-> "nothing"]          \* the decompressor's null or ""

FlatKeys == <<"id", "name", "color", "category", "x", "y", "width", "height", "type",
              "from", "to", "label", "customName", "borderStyle", "parentContainerId",
              "zoomLevel">>
TopKeys == <<"version", "timestamp", "boardItems", "containers", "connections",
             "settings">>

IsUndef(o, k) == k \notin NumKeys /\ k \notin ArrayKeys /\ k # "settings" /\ o[k] = UNDEF

\* the members JSON.stringify writes for a flat object: a key whose value is
\* undefined is left out, null is written
Members(o, keys) ==
    LET present == SelectSeq(keys, LAMBDA k : k \in DOMAIN o /\ ~IsUndef(o, k))
    IN  [i \in 1..Len(present) |-> <<present[i], o[present[i]]>>]

FlatMembers(o) == Members(o, FlatKeys)

\* JSON.stringify (compression.ts:141)
JSONstringify(o) ==
    LET present == SelectSeq(TopKeys, LAMBDA k : k \in DOMAIN o /\ ~IsUndef(o, k))
        Member(k) == IF k \in ArrayKeys THEN <<k, Map(o[k], FlatMembers)>>
                     ELSE IF k = "settings" THEN <<k, FlatMembers(o[k])>>
                     ELSE <<k, o[k]>>
    IN  JsonText([i \in 1..Len(present) |-> Member(present[i])])

MemberKeys(ms) == {ms[i][1] : i \in 1..Len(ms)}
MemberValue(ms, k) == ms[CHOOSE i \in 1..Len(ms) : ms[i][1] = k][2]

ParseFlat(ms) == [k \in MemberKeys(ms) |-> MemberValue(ms, k)]

ParseTop(ms) ==
    [k \in MemberKeys(ms) |->
        IF k \in ArrayKeys THEN Map(MemberValue(ms, k), ParseFlat)
        ELSE IF k = "settings" THEN ParseFlat(MemberValue(ms, k))
        ELSE MemberValue(ms, k)]

\* JSON.parse (compression.ts:171, 179): throws on text that is no JSON
JSONparse(text) ==
    CASE text.t = "json-object" -> Ok(JsObject(ParseTop(text.ms)))
      [] text.t = "json-null"   -> Ok(JsNull)
      [] text.t = "json-number" -> Ok(JsNumber)
      [] OTHER                  -> Threw

\* LZString.compressToEncodedURIComponent (compression.ts:142)
compressToEncodedURIComponent(plain) == [enc |-> "lz", body |-> plain]

\* btoa (compression.ts:248, compression.test.ts:221)
btoa(plain) == [enc |-> "b64", body |-> plain]

Raw(s) == [enc |-> "raw", body |-> Chars(s)]

\* whether the base64 of a plain text begins with "e": the text begins with "{"
BeginsWithBrace(plain) == plain.t = "json-object" /\ plain.pad = ""

\* LZString.decompressFromEncodedURIComponent (compression.ts:168): the exact
\* inverse on the compressor's own output.  A text that begins with "e" (the
\* base64 of anything that begins with "{") it reads as an end-of-stream code
\* and returns "" for; on any other text the library returns null, "" or some
\* string, here the caller-supplied outcome.
\* The library first writes "+" for every space of its input
\* (input.replace(/ /g, "+")), which undoes what reading a query does.
Respelled(text) == IF text.enc = "spaced" THEN text.body ELSE text

decompressFromEncodedURIComponent(text, foreignOutcome) ==
    IF Respelled(text).enc = "lz" THEN Respelled(text).body
    ELSE IF Respelled(text).enc = "b64" /\ BeginsWithBrace(Respelled(text).body)
    THEN Nothing
    ELSE foreignOutcome

\* atob (compression.ts:178): the inverse of btoa; on text that is no base64
\* (a base64 text whose "+" were read as spaces included) it throws or
\* returns some string, here the caller-supplied outcome
atob(text, foreignOutcome) ==
    IF text.enc = "b64" THEN Ok(text.body) ELSE foreignOutcome

LzForeignOutcomes == {Nothing, Chars("\\u0012garbage"), JsonNumberText}
AtobForeignOutcomes == {Threw, Ok(Chars("\\u00ffgarbage"))}

(***************************************************************************)
(* compressData (compression.ts:133-153)                                   *)
(***************************************************************************)
JsUndefined == [type |-> "undefined", obj |-> <<>>]

\* the text ""
EmptyText == Raw("")

\* variant: whatever the compressor returns is returned
compressDataUnchecked(data, emptied) ==
    IF data.type \in {"null", "undefined"} THEN Threw
    ELSE LET optimizedData == optimizeDataForCompression(data.obj)
             jsonString == JSONstringify(optimizedData)
         IN  Ok(IF emptied THEN EmptyText ELSE compressToEncodedURIComponent(jsonString))

\* emptied: the compressor returns "" for the JSON text; both the throw of
\* line 135 and the rethrow of line 151 reach the caller
compressData(data, emptied) ==
    IF data.type \in {"null", "undefined"} THEN Threw
    ELSE LET optimizedData == optimizeDataForCompression(data.obj)
             jsonString == JSONstringify(optimizedData)
             compressed == IF emptied THEN EmptyText
                           ELSE compressToEncodedURIComponent(jsonString)
         IN  IF compressed.body = Chars("") THEN Threw ELSE Ok(compressed)

(***************************************************************************)
(* decompressData (compression.ts:161-191)                                 *)
(***************************************************************************)
\* variant: nothing catches what the body throws
Uncaught(outcome) == outcome

\* try { ... } catch { return null } (compression.ts:166, 187-190)
CatchToNull(outcome) == IF outcome.threw THEN NullResult ELSE outcome

\* JSON.parse followed by restoreDataFromOptimized, either of which may throw
parseAndRestore(plain) ==
    LET parsed == JSONparse(plain)
    IN  IF parsed.threw THEN Threw ELSE restoreDataFromOptimized(parsed.value[1])

\* the inner try of the fallback (compression.ts:176-184): a failure is
\* warned about and falls through to the final return null
base64Fallback(compressedData, atobOutcome) ==
    LET base64Decoded == atob(compressedData, atobOutcome)
    IN  IF base64Decoded.threw THEN NullResult
        ELSE CatchToNull(parseAndRestore(base64Decoded.value[1]))

\* the body of the outer try (compression.ts:166-186)
decompressBody(compressedData, fallbackToBase64, lzOutcome, atobOutcome) ==
    LET decompressed == decompressFromEncodedURIComponent(compressedData, lzOutcome)
    IN  IF decompressed # Nothing /\ decompressed # Chars("")
        THEN parseAndRestore(decompressed)
        ELSE IF fallbackToBase64 THEN base64Fallback(compressedData, atobOutcome)
        ELSE NullResult

decompressData(compressedData, fallbackToBase64, lzOutcome, atobOutcome) ==
    IF compressedData.enc = "raw" /\ Trim(compressedData.body.s) = ""
    THEN NullResult
    ELSE CatchToNull(decompressBody(compressedData, fallbackToBase64,
                                    lzOutcome, atobOutcome))

(***************************************************************************)
(* generateShareUrl and parseSharedUrl (compression.ts:198-231).  A URL     *)
(* text is written as its pieces in order: the characters up to the query,  *)
(* then for each parameter its introducer ("?data=") and its value as       *)
(* written.                                                                 *)
(***************************************************************************)
\* variant: the data is put in the fragment
generateShareUrlInFragment(data, baseUrl, emptied) ==
    LET compressed == compressData(data, emptied)
    IN  IF compressed.threw THEN Threw
        ELSE Ok(<<baseUrl, "#data=", compressed.value[1]>>)

\* baseUrl: window.location.origin + window.location.pathname
generateShareUrl(data, baseUrl, emptied) ==
    LET compressed == compressData(data, emptied)
    IN  IF compressed.threw THEN Threw
        ELSE Ok(<<baseUrl, "?data=", compressed.value[1]>>)

Schemes == {"https://", "http://"}

\* new URL(url) (compression.ts:218): throws on text that is no absolute URL
newURL(url) ==
    IF \E scheme \in Schemes :
           Len(url[1]) > Len(scheme) /\ SubSeq(url[1], 1, Len(scheme)) = scheme
    THEN Ok(url) ELSE Threw

\* the value of a query as URLSearchParams reads it: a "+" stands for a space.
\* spaced: the value as written contains a "+"
FormDecoded(text, spaced) == IF spaced THEN [enc |-> "spaced", body |-> text] ELSE text

\* the positions of the values of the parameter name in the query
ParamPositions(url, name) ==
    {i \in 3..Len(url) : i % 2 = 1 /\ url[i - 1] \in {"?" \o name \o "=", "&" \o name \o "="}}

\* urlObj.searchParams.get(name) (compression.ts:219): the first value, or null
searchParamsGet(url, name, spaced) ==
    IF ParamPositions(url, name) = {} THEN NullResult
    ELSE Ok(FormDecoded(url[MinOf(ParamPositions(url, name))], spaced))

\* !dataParam (compression.ts:221)
NoDataParam(dataParam) == dataParam = NullResult \/ dataParam.value[1] = EmptyText

\* the body of the try (compression.ts:218-226)
parseSharedUrlBody(url, spaced, lzOutcome, atobOutcome) ==
    IF newURL(url).threw THEN Threw
    ELSE IF NoDataParam(searchParamsGet(url, "data", spaced)) THEN NullResult
    ELSE decompressData(searchParamsGet(url, "data", spaced).value[1], TRUE,
                        lzOutcome, atobOutcome)

\* variant: nothing catches what the body throws
parseSharedUrlUncaught(url, spaced, lzOutcome, atobOutcome) ==
    parseSharedUrlBody(url, spaced, lzOutcome, atobOutcome)

parseSharedUrl(url, spaced, lzOutcome, atobOutcome) ==
    CatchToNull(parseSharedUrlBody(url, spaced, lzOutcome, atobOutcome))

(***************************************************************************)
(* checkDataSize (compression.ts:270-292).  The two lengths are those of    *)
(* JSON.stringify(data) and of compressData(data); sizes in KB are kept in  *)
(* hundredths, which is what Math.round(v * 100) / 100 leaves of them.      *)
(***************************************************************************)
\* Math.round(length / 1024 * 100), halves rounding up
Hundredths(length) == (length * 200 + 1024) \div 2048

\* variant: the rounded size is compared
checkDataSizeRounded(data, maxSizeKB, jsonLength, compressedLength) ==
    IF compressData(data, FALSE).threw THEN Threw
    ELSE Ok([isValid |-> Hundredths(compressedLength) <= maxSizeKB * 100,
             originalSizeKB |-> Hundredths(jsonLength),
             compressedSizeKB |-> Hundredths(compressedLength)])

\* compressedSizeKB <= maxSizeKB with compressedSizeKB = compressed.length /
\* 1024, a division that is exact in floating point
checkDataSize(data, maxSizeKB, jsonLength, compressedLength) ==
    IF compressData(data, FALSE).threw THEN Threw
    ELSE Ok([isValid |-> compressedLength <= maxSizeKB * 1024,
             originalSizeKB |-> Hundredths(jsonLength),
             compressedSizeKB |-> Hundredths(compressedLength)])

(***************************************************************************)
(* The Diagrams the codec is checked on.  Every entity carries the fields  *)
(* the data model defines; the optional ones range over absent, their      *)
(* default and a non-default value, free text also over "" and blanks;     *)
(* of the two optional fields of an entity at most one departs from the    *)
(* plainest form at a time, the code treating each field on its own.       *)
(***************************************************************************)
MaxEntities == 2      \* Nodes + Groups + Edges of a Diagram under test

CustomNames == {UNDEF, "", "EC2", "Web Server"}
ParentIds == {UNDEF, NULL, "vpc-1"}
BorderStyles == {UNDEF, "solid", "dashed"}
Labels == {UNDEF, "", " ", "query"}

\* an object literal that leaves out the keys given as undefined
Literal(o) == [k \in {j \in DOMAIN o : ~IsUndef(o, j)} |-> o[k]]

ItemShapes ==
    {Literal([id |-> "ec2", name |-> "EC2", color |-> "#FF9900", category |-> "Compute",
              x |-> 100, y |-> 120, type |-> "service",
              customName |-> cp[1], parentContainerId |-> cp[2]]) :
        cp \in {q \in CustomNames \X ParentIds : q[1] = UNDEF \/ q[2] = NULL}}

ContainerShapes ==
    {Literal([id |-> "vpc", name |-> "VPC", color |-> "#FF6B6B", x |-> 50, y |-> 60,
              width |-> 300, height |-> 200, type |-> "container",
              borderStyle |-> bp[1], parentContainerId |-> bp[2]]) :
        bp \in {q \in BorderStyles \X ParentIds : q[1] = UNDEF \/ q[2] = NULL}}

ConnectionShapes ==
    {Literal([id |-> "conn", from |-> "ec2-1", to |-> "ec2-2", label |-> l]) :
        l \in Labels}

\* the i-th entity of a collection gets its own id
Numbered(shapes) ==
    [i \in 1..Len(shapes) |-> [shapes[i] EXCEPT !.id = @ \o "-" \o ToString(i)]]

Collections(shapeSet, n) == {Numbered(s) : s \in [1..n -> shapeSet]}

SettingsChoices == {"absent", "empty", "75", "100"}

DiagramOf(items, groups, edges, settingsChoice) ==
    LET base == [version |-> "1.0", timestamp |-> 1700000000,
                 boardItems |-> items, containers |-> groups, connections |-> edges]
    IN  CASE settingsChoice = "absent" -> base
          [] settingsChoice = "empty"  -> ("settings" :> <<>>) @@ base
          [] settingsChoice = "75"     -> ("settings" :> [zoomLevel |-> 75]) @@ base
          [] OTHER                     -> ("settings" :> [zoomLevel |-> 100]) @@ base

Sizes == {t \in (0..MaxEntities) \X (0..MaxEntities) \X (0..MaxEntities) :
             t[1] + t[2] + t[3] <= MaxEntities}

Diagrams ==
    UNION {{DiagramOf(items, groups, edges, z) :
                items \in Collections(ItemShapes, t[1]),
                groups \in Collections(ContainerShapes, t[2]),
                edges \in Collections(ConnectionShapes, t[3]),
                z \in SettingsChoices} : t \in Sizes}

EmptyData == DiagramOf(<<>>, <<>>, <<>>, "absent")

\* texts that reach decompressData from outside: nothing, blanks, characters no
\* encoder wrote, and encodings of JSON that is no Diagram or of no JSON at all
NotADiagram == {JsonText(<<>>), JsonText(<<<<"version", "1.0">>>>),
                JsonText(<<<<"boardItems", <<>>>>, <<"containers", <<>>>>>>),
                JsonNullText, JsonNumberText, Chars("not json")}

ForeignTexts ==
    {Raw(""), Raw("  "), Raw("invalid-compressed-data")}
    \cup {compressToEncodedURIComponent(p) : p \in NotADiagram}
    \cup {btoa(p) : p \in NotADiagram}

(***************************************************************************)
(* CodecSpec: a Diagram is drawn, then either optimized and restored, or   *)
(* compressed / legacy-encoded and decompressed; or a foreign text is      *)
(* decompressed.                                                           *)
(***************************************************************************)
CodecIdle ==
    [pc |-> "idle", data |-> EmptyData, out |-> EmptyData, text |-> Raw(""),
     source |-> "none", fallback |-> FALSE, lzOutcome |-> Nothing, atobOutcome |-> Threw,
     result |-> NullResult, again |-> EmptyData, arg |-> "object", emptied |-> FALSE,
     url |-> <<"">>, spaced |-> FALSE,
     size |-> [maxSizeKB |-> 0, jsonLength |-> 0, compressedLength |-> 0]]


Optimize ==
    /\ codec.pc = "input"
    /\ codec' = [codec EXCEPT !.pc = "optimized",
                              !.out = optimizeDataForCompression(codec.data)]
    /\ UNCHANGED <<resolver, emitter, parser, boardVars>>

Restore ==
    /\ codec.pc = "optimized"
    /\ codec' = [codec EXCEPT !.pc = "restored",
                              !.result = restoreDataFromOptimized(JsObject(codec.out))]
    /\ UNCHANGED <<resolver, emitter, parser, boardVars>>

\* optimize applied to its own result
OptimizeAgain ==
    /\ codec.pc = "optimized"
    /\ codec' = [codec EXCEPT !.pc = "reoptimized",
                              !.again = optimizeDataForCompression(codec.out)]
    /\ UNCHANGED <<resolver, emitter, parser, boardVars>>

\* compressData called with the Diagram, with null or with undefined; the
\* compressor returns its text or ""
Compress ==
    /\ codec.pc = "input"
    /\ \E data \in {JsObject(codec.data), JsNull, JsUndefined}, emptied \in BOOLEAN :
           /\ data.type # "object" => codec.data = EmptyData /\ ~emptied
           /\ \E compressed \in {compressData(data, emptied)} :
                  codec' = IF compressed.threw
                           THEN [codec EXCEPT !.pc = "threw", !.source = "compress",
                                              !.arg = data.type, !.emptied = emptied,
                                              !.result = Threw]
                           ELSE [codec EXCEPT !.pc = "text", !.source = "compress",
                                              !.arg = data.type, !.emptied = emptied,
                                              !.text = compressed.value[1]]
    /\ UNCHANGED <<resolver, emitter, parser, boardVars>>

EncodeLegacy ==
    /\ codec.pc = "input"
    /\ codec' = [codec EXCEPT !.pc = "text", !.source = "legacy",
                              !.text = btoa(JSONstringify(codec.data))]
    /\ UNCHANGED <<resolver, emitter, parser, boardVars>>

\* a base64 text that did not come from the legacy encoder: the same JSON
\* written after two blanks
EncodePadded ==
    /\ codec.pc = "input"
    /\ Len(codec.data.connections) = 0
    /\ codec' = [codec EXCEPT !.pc = "text", !.source = "padded",
                              !.text = btoa(Padded(JSONstringify(codec.data), "  "))]
    /\ UNCHANGED <<resolver, emitter, parser, boardVars>>

ReceiveForeign ==
    /\ codec.pc = "input"
    /\ codec.data = EmptyData
    /\ \E t \in ForeignTexts :
           codec' = [codec EXCEPT !.pc = "text", !.source = "foreign", !.text = t]
    /\ UNCHANGED <<resolver, emitter, parser, boardVars>>

\* what the two library decoders may return for the text: fixed by the text
\* where it is their own encoder's output, any foreign outcome otherwise
LzOutcomesFor(text) ==
    IF Respelled(text).enc = "lz"
       \/ (Respelled(text).enc = "b64" /\ BeginsWithBrace(Respelled(text).body))
    THEN {Nothing} ELSE LzForeignOutcomes
AtobOutcomesFor(text) == IF text.enc = "b64" THEN {Threw} ELSE AtobForeignOutcomes

Decompress ==
    /\ codec.pc = "text"
    /\ \E fb \in BOOLEAN, lz \in LzOutcomesFor(codec.text),
          ab \in AtobOutcomesFor(codec.text) :
           codec' = [codec EXCEPT !.pc = "decompressed", !.fallback = fb,
                                  !.lzOutcome = lz, !.atobOutcome = ab,
                                  !.result = decompressData(codec.text, fb, lz, ab)]
    /\ UNCHANGED <<resolver, emitter, parser, boardVars>>

\* where the app is served: window.location.origin + window.location.pathname
BaseUrls == {"https://example.com/otak-aws/", "http://localhost:3000/"}

\* URL texts that reach parseSharedUrl from outside: no URL at all, a relative
\* one, URLs without a data parameter, with an empty one, with the data after
\* another parameter or in the fragment
ForeignUrls ==
    {<<"">>, <<"not a url">>, <<"/otak-aws", "?data=", Raw("invalid-compressed-data")>>,
     <<"https://example.com/otak-aws">>,
     <<"https://example.com/otak-aws", "?lang=", Raw("ja")>>,
     <<"https://example.com/otak-aws", "?data=", EmptyText>>,
     <<"https://example.com/otak-aws", "?lang=", Raw("ja"), "&data=",
       Raw("invalid-compressed-data")>>,
     <<"https://example.com/otak-aws", "#data=", Raw("invalid-compressed-data")>>}

\* generateShareUrl(data) on a page served at baseUrl
GenerateShareUrl ==
    /\ codec.pc = "input"
    /\ \E baseUrl \in BaseUrls, emptied \in BOOLEAN :
           \E shareUrl \in {generateShareUrl(JsObject(codec.data), baseUrl, emptied)} :
               codec' = IF shareUrl.threw
                        THEN [codec EXCEPT !.pc = "threw", !.source = "share",
                                           !.emptied = emptied, !.result = Threw]
                        ELSE [codec EXCEPT !.pc = "url", !.source = "share",
                                           !.emptied = emptied,
                                           !.url = shareUrl.value[1]]
    /\ UNCHANGED <<resolver, emitter, parser, boardVars>>

\* a text of any origin arrives as the data parameter of a URL
ReceiveInUrl ==
    /\ codec.pc = "text"
    /\ codec.source # "compress"
    /\ codec' = [codec EXCEPT !.pc = "url",
                              !.url = <<"https://example.com/otak-aws", "?data=",
                                        codec.text>>]
    /\ UNCHANGED <<resolver, emitter, parser, boardVars>>

ReceiveForeignUrl ==
    /\ codec.pc = "input"
    /\ codec.data = EmptyData
    /\ \E url \in ForeignUrls :
           codec' = [codec EXCEPT !.pc = "url", !.source = "foreign-url", !.url = url]
    /\ UNCHANGED <<resolver, emitter, parser, boardVars>>

\* the data parameter as written in a URL text, <<>> when it has none
Written(url) ==
    IF ParamPositions(url, "data") = {} THEN <<>>
    ELSE <<url[MinOf(ParamPositions(url, "data"))]>>

\* the alphabets of the compressor and of base64 hold "+"
SpacedFor(url) ==
    IF Written(url) # <<>> /\ Written(url)[1].enc \in {"lz", "b64"}
    THEN BOOLEAN ELSE {FALSE}

ParseSharedUrl ==
    /\ codec.pc = "url"
    /\ \E spaced \in SpacedFor(codec.url) :
       \E lz \in (IF Written(codec.url) = <<>> THEN {Nothing}
                  ELSE LzOutcomesFor(Written(codec.url)[1])),
          ab \in (IF Written(codec.url) = <<>> \/ ~spaced
                  THEN (IF Written(codec.url) = <<>> THEN {Threw}
                        ELSE AtobOutcomesFor(Written(codec.url)[1]))
                  ELSE AtobForeignOutcomes) :
           codec' = [codec EXCEPT !.pc = "parsed", !.spaced = spaced,
                                  !.lzOutcome = lz, !.atobOutcome = ab,
                                  !.result = parseSharedUrl(codec.url, spaced, lz, ab)]
    /\ UNCHANGED <<resolver, emitter, parser, boardVars>>

\* the ceilings and the lengths the size check is made on: lengths below, at
\* and just above the ceiling, and the JSON on either side of it
SizeCeilings == {1, 2}
CompressedLengths == {1000, 1024, 1025, 1029, 1030, 2048, 2049}
JsonLengths == {900, 3000}

CheckDataSize ==
    /\ codec.pc = "input"
    /\ Len(codec.data.containers) = 0 /\ Len(codec.data.connections) = 0
    /\ \E maxSizeKB \in SizeCeilings, jsonLength \in JsonLengths,
          compressedLength \in CompressedLengths :
           codec' = [codec EXCEPT
               !.pc = "sized",
               !.size = [maxSizeKB |-> maxSizeKB, jsonLength |-> jsonLength,
                         compressedLength |-> compressedLength],
               !.result = checkDataSize(JsObject(codec.data), maxSizeKB, jsonLength,
                                        compressedLength)]
    /\ UNCHANGED <<resolver, emitter, parser, boardVars>>

CodecNext ==
    \/ CheckDataSize
    \/ GenerateShareUrl
    \/ ReceiveInUrl
    \/ ReceiveForeignUrl
    \/ ParseSharedUrl
    \/ Optimize
    \/ OptimizeAgain
    \/ Restore
    \/ Compress
    \/ EncodeLegacy
    \/ EncodePadded
    \/ ReceiveForeign
    \/ Decompress

(***************************************************************************)
(* Default normalization of a Diagram, for comparing two of them field for *)
(* field: every field the data model defines, an optional one replaced by  *)
(* its default when it holds none.  NormLabel and NormName say when a      *)
(* label and a customName count as holding none.                           *)
(***************************************************************************)
NormParent(p) == IF p = UNDEF THEN NULL ELSE p
NormBorder(b) == IF b = UNDEF THEN "solid" ELSE b

NormalizeWith(d, NormLabel(_), NormName(_, _)) ==
    [version |-> d.version,
     timestamp |-> d.timestamp,
     boardItems |-> Map(d.boardItems, LAMBDA i :
        [id |-> i.id, name |-> i.name, color |-> i.color, category |-> i.category,
         x |-> i.x, y |-> i.y, type |-> i.type,
         customName |-> NormName(Get(i, "customName"), i.name),
         parentContainerId |-> NormParent(Get(i, "parentContainerId"))]),
     containers |-> Map(d.containers, LAMBDA c :
        [id |-> c.id, name |-> c.name, color |-> c.color, x |-> c.x, y |-> c.y,
         width |-> c.width, height |-> c.height, type |-> c.type,
         borderStyle |-> NormBorder(Get(c, "borderStyle")),
         parentContainerId |-> NormParent(Get(c, "parentContainerId"))]),
     connections |-> Map(d.connections, LAMBDA e :
        [id |-> e.id, from |-> e.from, to |-> e.to,
         label |-> NormLabel(Get(e, "label"))]),
     zoomLevel |-> IF "settings" \in DOMAIN d /\ "zoomLevel" \in DOMAIN d.settings
                   THEN d.settings.zoomLevel ELSE 100]

\* as the round-trip law words it: absent or empty label = no label,
\* customName equal to name = no override
StatedLabel(l) == IF l \in {UNDEF, ""} THEN "" ELSE l
StatedName(c, name) == IF c \in {UNDEF, name} THEN UNDEF ELSE c
StatedNormalize(d) == NormalizeWith(d, StatedLabel, StatedName)

\* with a blank label also no label, and an empty customName also no override
BlankLabel(l) == IF l = UNDEF \/ Trim(l) = "" THEN "" ELSE l
EmptyName(c, name) == IF c \in {UNDEF, "", name} THEN UNDEF ELSE c
Normalize(d) == NormalizeWith(d, BlankLabel, EmptyName)

Returned(result) == ~result.threw /\ Len(result.value) = 1

\* C1 as stated: restore(optimize(d)) equals d field for field after the
\* normalization the claim lists (absent or empty label = no label, borderStyle
\* absent = solid, parentContainerId absent = null, customName equal to name =
\* no override, zoomLevel absent = 100), collections in the same order.
C1_RoundTripAsStated ==
    codec.pc = "restored" =>
        /\ Returned(codec.result)
        /\ StatedNormalize(codec.result.value[1]) = StatedNormalize(codec.data)

\* C1 amended: restore(optimize(d)) equals d field for field, collections in
\* the same order, after default normalization in which a whitespace-only
\* label also counts as no label and an empty customName as no override.
C1_RoundTrip ==
    codec.pc = "restored" =>
        /\ Returned(codec.result)
        /\ Normalize(codec.result.value[1]) = Normalize(codec.data)

C1_Witness ==
    /\ codec.pc = "restored"
    /\ Len(codec.data.boardItems) = 1 /\ Len(codec.data.connections) = 1
    /\ Get(codec.data.boardItems[1], "customName") = "Web Server"
    /\ Get(codec.data.connections[1], "label") = " "
    /\ codec.result.value[1].connections[1].label = ""

\* C2 as stated: decompressData(compressData(d)), without fallback, returns a
\* Diagram equal to d after the normalization the round-trip law lists.
C2_CompressRoundTripAsStated ==
    (codec.pc = "decompressed" /\ codec.source = "compress" /\ ~codec.fallback) =>
        /\ Returned(codec.result)
        /\ StatedNormalize(codec.data) = StatedNormalize(codec.result.value[1])

\* C2 amended: decompressData(compressData(d)), without fallback, returns a
\* Diagram equal to d after default normalization in which a whitespace-only
\* label also counts as no label and an empty customName as no override.
C2_CompressRoundTrip ==
    (codec.pc = "decompressed" /\ codec.source = "compress" /\ ~codec.fallback) =>
        /\ Returned(codec.result)
        /\ Normalize(codec.data) = Normalize(codec.result.value[1])

C2_Witness ==
    /\ codec.pc = "decompressed" /\ codec.source = "compress" /\ ~codec.fallback
    /\ Len(codec.data.containers) = 1 /\ Len(codec.data.boardItems) = 1
    /\ Get(codec.data.containers[1], "borderStyle") = "dashed"
    /\ Get(codec.data.boardItems[1], "parentContainerId") = "vpc-1"
    /\ "settings" \in DOMAIN codec.data /\ codec.data.settings = [zoomLevel |-> 75]
    /\ Returned(codec.result)

\* C16: optimize(optimize(d)) equals optimize(d) for every Diagram d.
C16_OptimizeIdempotent ==
    codec.pc = "reoptimized" => codec.again = codec.out

\* a Diagram that optimize changes and that keeps a dashed border
C16_Witness ==
    /\ codec.pc = "reoptimized"
    /\ codec.out # codec.data
    /\ Len(codec.out.containers) = 1
    /\ Get(codec.out.containers[1], "borderStyle") = "dashed"
    /\ Len(codec.data.boardItems) = 1
    /\ Get(codec.data.boardItems[1], "customName") = "EC2"

\* whether optimize kept the optional field k of the entity: omitted when absent
\* or among the values given as defaults, copied unchanged otherwise
KeptUnlessDefault(in, out, k, defaults) ==
    IF Get(in, k) \in {UNDEF} \cup defaults
    THEN k \notin DOMAIN out
    ELSE k \in DOMAIN out /\ out[k] = in[k]

\* the fields of an entity other than the optional ones are copied
SameRequired(in, out, optional) ==
    /\ DOMAIN out \subseteq DOMAIN in
    /\ DOMAIN in \ optional \subseteq DOMAIN out
    /\ \A k \in DOMAIN in \ optional : out[k] = in[k]

OmitsDefaults(d, o, NoName(_)) ==
    /\ Len(o.boardItems) = Len(d.boardItems)
    /\ Len(o.containers) = Len(d.containers)
    /\ Len(o.connections) = Len(d.connections)
    /\ \A i \in 1..Len(d.boardItems) :
           /\ SameRequired(d.boardItems[i], o.boardItems[i],
                           {"customName", "parentContainerId"})
           /\ KeptUnlessDefault(d.boardItems[i], o.boardItems[i], "customName",
                                NoName(d.boardItems[i].name))
           /\ KeptUnlessDefault(d.boardItems[i], o.boardItems[i], "parentContainerId",
                                {NULL})
    /\ \A i \in 1..Len(d.containers) :
           /\ SameRequired(d.containers[i], o.containers[i],
                           {"borderStyle", "parentContainerId"})
           /\ KeptUnlessDefault(d.containers[i], o.containers[i], "borderStyle",
                                {"solid"})
           /\ KeptUnlessDefault(d.containers[i], o.containers[i], "parentContainerId",
                                {NULL})
    /\ \A i \in 1..Len(d.connections) :
           /\ SameRequired(d.connections[i], o.connections[i], {"label"})
           /\ KeptUnlessDefault(d.connections[i], o.connections[i], "label",
                                {l \in Labels \ {UNDEF} : Trim(l) = ""})
    /\ IF "settings" \in DOMAIN d /\ "zoomLevel" \in DOMAIN d.settings
          /\ d.settings.zoomLevel # 100
       THEN "settings" \in DOMAIN o /\ o.settings = [zoomLevel |-> d.settings.zoomLevel]
       ELSE "settings" \notin DOMAIN o
    /\ o.version = d.version /\ o.timestamp = d.timestamp

\* customName counts as default when equal to name
NameEqual(name) == {name}
\* customName counts as default when equal to name or empty
NameEqualOrEmpty(name) == {name, ""}

\* C17 as stated: optimize omits a field when, and only when, it holds its
\* default (customName equal to name, parentContainerId null, borderStyle
\* "solid", label empty or whitespace-only, zoomLevel 100), keeps every other
\* value unchanged, and keeps the length and order of the three collections.
C17_OmitsExactlyDefaultsAsStated ==
    codec.pc = "optimized" => OmitsDefaults(codec.data, codec.out, NameEqual)

\* C17 amended: as stated, with an empty customName also omitted.
C17_OmitsExactlyDefaults ==
    codec.pc = "optimized" => OmitsDefaults(codec.data, codec.out, NameEqualOrEmpty)

\* a customName equal to name dropped next to a blank label dropped, and in
\* another Diagram shape a custom name kept
C17_Witness ==
    /\ codec.pc = "optimized"
    /\ Len(codec.data.boardItems) = 1 /\ Len(codec.data.connections) = 1
    /\ Get(codec.data.boardItems[1], "customName") = "EC2"
    /\ "customName" \notin DOMAIN codec.out.boardItems[1]
    /\ Get(codec.data.connections[1], "label") = " "
    /\ "label" \notin DOMAIN codec.out.connections[1]
    /\ "settings" \in DOMAIN codec.out /\ codec.out.settings.zoomLevel = 75

\* C18: compressData raises an error to its caller, instead of returning a
\* value, when the Diagram is null or undefined or when the compressor produces
\* an empty result; for every present Diagram it returns a non-empty text.
C18_CompressThrowsOrReturnsText ==
    (codec.source = "compress" /\ codec.pc \in {"threw", "text"}) =>
        IF codec.arg \in {"null", "undefined"} \/ codec.emptied
        THEN codec.pc = "threw" /\ codec.result = Threw
        ELSE /\ codec.pc = "text"
             /\ codec.text # EmptyText
             /\ codec.text.body \notin {Chars(""), Nothing}

\* the compressor returned "" for the JSON text of a Diagram with a Node
C18_Witness ==
    /\ codec.source = "compress" /\ codec.pc = "threw"
    /\ codec.arg = "object" /\ codec.emptied
    /\ Len(codec.data.boardItems) = 1

\* C19 as stated: generateShareUrl returns base + "?data=" + compress(d), and
\* parseSharedUrl applied to that link returns a Diagram equal to d after the
\* normalization the round-trip law lists.
C19_ShareLinkRoundTripAsStated ==
    /\ (codec.pc = "url" /\ codec.source = "share") =>
           /\ Len(codec.url) = 3
           /\ codec.url[1] \in BaseUrls
           /\ codec.url[2] = "?data="
           /\ Ok(codec.url[3]) = compressData(JsObject(codec.data), FALSE)
    /\ (codec.pc = "parsed" /\ codec.source = "share") =>
           /\ Returned(codec.result)
           /\ StatedNormalize(codec.result.value[1]) = StatedNormalize(codec.data)

\* C19 amended: generateShareUrl returns base + "?data=" + compress(d), and
\* parseSharedUrl applied to that link returns a Diagram equal to d after
\* default normalization in which a whitespace-only label also counts as no
\* label and an empty customName as no override.
C19_ShareLinkRoundTrip ==
    /\ (codec.pc = "url" /\ codec.source = "share") =>
           /\ Len(codec.url) = 3
           /\ codec.url[1] \in BaseUrls
           /\ codec.url[2] = "?data="
           /\ Ok(codec.url[3]) = compressData(JsObject(codec.data), FALSE)
    /\ (codec.pc = "parsed" /\ codec.source = "share") =>
           /\ Returned(codec.result)
           /\ Normalize(codec.result.value[1]) = Normalize(codec.data)

\* the link of a Diagram with a Group and a named Node, its "+" read as spaces
C19_Witness ==
    /\ codec.pc = "parsed" /\ codec.source = "share" /\ codec.spaced
    /\ Len(codec.data.containers) = 1 /\ Len(codec.data.boardItems) = 1
    /\ Get(codec.data.boardItems[1], "customName") = "Web Server"
    /\ Returned(codec.result)
    /\ codec.result.value[1].boardItems[1].customName = "Web Server"

\* whether the text is an absolute URL
IsAbsoluteUrl(url) ==
    \E base \in BaseUrls \cup {"https://example.com/otak-aws"} : url[1] = base

\* C20: parseSharedUrl returns null when the URL has no data query parameter
\* and otherwise exactly decompressData(data, true), so a present but corrupt
\* data parameter also yields null; it never throws, a text that is no URL
\* included.
C20_ParseSharedUrlNullOrDecompress ==
    codec.pc = "parsed" =>
        /\ ~codec.result.threw
        /\ IF ~IsAbsoluteUrl(codec.url) \/ Written(codec.url) = <<>>
           THEN codec.result = NullResult
           ELSE codec.result =
                    decompressData(FormDecoded(Written(codec.url)[1], codec.spaced),
                                   TRUE, codec.lzOutcome, codec.atobOutcome)
        /\ codec.source \in {"foreign", "foreign-url"} => codec.result = NullResult

\* a URL whose data parameter no encoder wrote, and which the decompressor
\* turns into characters that are no JSON, has been parsed to null
C20_Witness ==
    /\ codec.pc = "parsed" /\ codec.source = "foreign"
    /\ Written(codec.url) = <<Raw("invalid-compressed-data")>>
    /\ codec.lzOutcome = Chars("\\u0012garbage")
    /\ codec.result = NullResult

\* C24: checkDataSize reports isValid true exactly when the length of
\* compressData(d) divided by 1024 is at most maxSizeKB, comparing the
\* unrounded value: a compressed size that only rounds down to the ceiling is
\* reported as over budget; the comparison uses the compressed length, not the
\* length of the JSON.
C24_SizeBudgetUnrounded ==
    codec.pc = "sized" =>
        /\ Returned(codec.result)
        /\ codec.result.value[1].isValid
               <=> codec.size.compressedLength <= 1024 * codec.size.maxSizeKB
        /\ (codec.result.value[1].compressedSizeKB = 100 * codec.size.maxSizeKB
              /\ codec.size.compressedLength > 1024 * codec.size.maxSizeKB)
               => ~codec.result.value[1].isValid

\* 1029 characters against a ceiling of 1 KB: reported as 1.00 KB and over
\* budget, the JSON itself being under 1 KB
C24_Witness ==
    /\ codec.pc = "sized"
    /\ codec.size = [maxSizeKB |-> 1, jsonLength |-> 900, compressedLength |-> 1029]
    /\ Len(codec.data.boardItems) = 1
    /\ codec.result.value[1].compressedSizeKB = 100
    /\ ~codec.result.value[1].isValid

\* C3: with the fallback allowed, the legacy decoder is tried whenever the
\* primary path yields no Diagram, be it that the primary decompressor returns
\* nothing or that it returns text that does not parse; so every text that is
\* the base64 of a Diagram's JSON decodes to that Diagram, normalized.
C3_LegacyFallbackAlwaysTried ==
    (codec.pc = "decompressed" /\ codec.source \in {"legacy", "padded"} /\ codec.fallback) =>
        /\ Returned(codec.result)
        /\ Normalize(codec.result.value[1]) = Normalize(codec.data)

\* what the code does guarantee: the legacy encoder's own output (which
\* begins with "e") decodes to the Diagram, normalized
LegacyEncoderOutputDecodes ==
    (codec.pc = "decompressed" /\ codec.source = "legacy" /\ codec.fallback) =>
        /\ Returned(codec.result)
        /\ Normalize(codec.result.value[1]) = Normalize(codec.data)

\* a plain text that parses as a structured Diagram: a JSON object that has
\* the three collections
IsStructured(plain) == plain.t = "json-object" /\ ArrayKeys \subseteq MemberKeys(plain.ms)

PrimaryText == decompressFromEncodedURIComponent(codec.text, codec.lzOutcome)
PrimaryRejects == PrimaryText \in {Nothing, Chars("")}
LegacyText == atob(codec.text, codec.atobOutcome)
IsBlank(text) == text.enc = "raw" /\ Trim(text.body.s) = ""

\* C4: decompressData never throws, whatever the text and the fallback
\* setting, and returns null for empty or whitespace-only text, for text the
\* decompressor rejects (when no legacy decoding stands in for it), and for
\* text whose decoded content is no structured Diagram, on the primary and on
\* the legacy path.
C4_DecompressNeverThrows ==
    codec.pc = "decompressed" =>
        /\ ~codec.result.threw
        /\ IsBlank(codec.text) => codec.result = NullResult
        /\ (PrimaryRejects /\ ~codec.fallback) => codec.result = NullResult
        /\ (~PrimaryRejects /\ ~IsStructured(PrimaryText)) => codec.result = NullResult
        /\ (PrimaryRejects /\ codec.fallback
              /\ (LegacyText.threw \/ ~IsStructured(LegacyText.value[1])))
             => codec.result = NullResult

C4_Witness ==
    /\ codec.pc = "decompressed" /\ codec.source = "foreign" /\ codec.fallback
    /\ codec.text = btoa(JsonText(<<<<"version", "1.0">>>>))
    /\ PrimaryRejects
    /\ codec.result = NullResult

(***************************************************************************)
(* Hierarchy Resolver (App.tsx:455-504).  A Group is a record with id,     *)
(* x, y, width, height and parentContainerId; the operators take the       *)
(* `containers` state they close over as their first argument.             *)
(***************************************************************************)
StackLimit == 8       \* calls the engine nests before it raises RangeError

\* isItemInContainer (App.tsx:455-462)
isItemInContainer(itemX, itemY, itemWidth, itemHeight, container) ==
    /\ itemX >= container.x
    /\ itemY >= container.y
    /\ itemX + itemWidth <= container.x + container.width
    /\ itemY + itemHeight <= container.y + container.height

\* Array.prototype.filter
Filter(arr, Keep(_)) == SelectSeq(arr, Keep)

Area(c) == c.width * c.height

\* Array.prototype.sort with (a, b) => area(a) - area(b): a stable sort, so
\* Groups of equal area keep their order
\* variant: the comparison also moves a Group in front of one of equal area
RECURSIVE InsertBeforeEqualArea(_, _)
InsertBeforeEqualArea(sorted, c) ==
    IF sorted = <<>> THEN <<c>>
    ELSE IF Area(Head(sorted)) - Area(c) >= 0 THEN <<c>> \o sorted
    ELSE <<Head(sorted)>> \o InsertBeforeEqualArea(Tail(sorted), c)

RECURSIVE InsertByArea(_, _)
InsertByArea(sorted, c) ==
    IF sorted = <<>> THEN <<c>>
    ELSE IF Area(Head(sorted)) - Area(c) > 0 THEN <<c>> \o sorted
    ELSE <<Head(sorted)>> \o InsertByArea(Tail(sorted), c)

RECURSIVE SortByArea(_)
SortByArea(arr) ==
    IF arr = <<>> THEN <<>>
    ELSE InsertByArea(SortByArea(SubSeq(arr, 1, Len(arr) - 1)), arr[Len(arr)])

\* findParentContainer (App.tsx:465-472): the Group found (or none), and the
\* `containers` array as the call leaves it (filter copies before the sort)
findParentContainer(cs, itemX, itemY, itemWidth, itemHeight, excludeContainerId) ==
    LET candidates == Filter(cs, LAMBDA container :
                          /\ container.id # excludeContainerId
                          /\ isItemInContainer(itemX, itemY, itemWidth, itemHeight, container))
        sorted == SortByArea(candidates)
    IN  [found |-> IF sorted = <<>> THEN <<>> ELSE <<sorted[1]>>,
         containers |-> cs]

\* parentContainer?.id || null
IdOrNull(found) == IF found = <<>> THEN NULL ELSE found[1].id

\* Array.prototype.find on the id: the first Group with that id, if any
FindById(cs, id) ==
    LET hits == {i \in 1..Len(cs) : cs[i].id = id}
    IN  IF hits = {} THEN <<>> ELSE <<cs[CHOOSE i \in hits : \A j \in hits : i <= j]>>

\* variant: only the direct parent is examined, the walk does not continue
checkDirectParentOnly(cs, childContainerId, currentParentId, depth) ==
    IF ~Truthy(currentParentId) THEN Ok(FALSE)
    ELSE IF currentParentId = childContainerId THEN Ok(TRUE)
    ELSE LET parent == FindById(cs, currentParentId)
         IN  IF parent # <<>>
             THEN Ok(parent[1].parentContainerId = childContainerId)
             ELSE Ok(FALSE)

\* checkParent (App.tsx:495-501): one nested call per ancestor; the engine
\* raises RangeError once the calls nest deeper than its stack allows
RECURSIVE checkParent(_, _, _, _)
checkParent(cs, childContainerId, currentParentId, depth) ==
    IF depth > StackLimit THEN Threw
    ELSE IF ~Truthy(currentParentId) THEN Ok(FALSE)
    ELSE IF currentParentId = childContainerId THEN Ok(TRUE)
    ELSE LET parent == FindById(cs, currentParentId)
         IN  IF parent # <<>>
             THEN checkParent(cs, childContainerId, parent[1].parentContainerId, depth + 1)
             ELSE Ok(FALSE)

\* variant: the check never reports a cycle
neverCircular(cs, childContainerId, parentContainerId) == Ok(FALSE)

\* wouldCreateCircularReference (App.tsx:492-504)
wouldCreateCircularReference(cs, childContainerId, parentContainerId) ==
    IF childContainerId = parentContainerId THEN Ok(TRUE)
    ELSE checkParent(cs, childContainerId, parentContainerId, 1)

\* variant: the children of child Groups are not collected
directChildrenOnly(items, cs, containerId, depth) ==
    [threw |-> FALSE,
     services |-> SelectSeq(items, LAMBDA item : item.parentContainerId = containerId),
     containers |-> SelectSeq(cs, LAMBDA c : c.parentContainerId = containerId)]

\* getAllChildrenOfContainer (App.tsx:475-489): one nested call per child
\* Group; RangeError once the calls nest deeper than the stack allows
RECURSIVE getAllChildrenOfContainer(_, _, _, _)
getAllChildrenOfContainer(items, cs, containerId, depth) ==
    IF depth > StackLimit THEN [threw |-> TRUE, services |-> <<>>, containers |-> <<>>]
    ELSE
    LET services == SelectSeq(items, LAMBDA item : item.parentContainerId = containerId)
        childContainers == SelectSeq(cs, LAMBDA c : c.parentContainerId = containerId)
        grand == [i \in 1..Len(childContainers) |->
                     getAllChildrenOfContainer(items, cs, childContainers[i].id, depth + 1)]
        Concat[i \in 0..Len(grand)] ==
            IF i = 0 THEN [services |-> services, containers |-> childContainers]
            ELSE [services |-> Concat[i - 1].services \o grand[i].services,
                  containers |-> Concat[i - 1].containers \o grand[i].containers]
    IN  [threw |-> \E i \in 1..Len(grand) : grand[i].threw,
         services |-> Concat[Len(grand)].services,
         containers |-> Concat[Len(grand)].containers]

(***************************************************************************)
(* ResolverSpec: a Groups collection is drawn, as an import or a shared    *)
(* link may load it (executeImport, App.tsx:1056-1062, stores the          *)
(* collections it is given unchecked), and one resolver call is made.      *)
(***************************************************************************)
MaxGroups == 3        \* Groups in a collection under test

GroupId(i) == "g" \o ToString(i)
GroupIds == {GroupId(i) : i \in 1..MaxGroups}

Group(id, x, y, w, h, parent) ==
    [id |-> id, x |-> x, y |-> y, width |-> w, height |-> h, parentContainerId |-> parent]

\* collections that differ in their parent references: null, any Group of the
\* collection (cycles included), or a Group that is gone
HierarchyCollections ==
    UNION {{[i \in 1..n |-> Group(GroupId(i), 0, 0, 3, 3, parents[i])] :
                parents \in [1..n -> GroupIds \cup {NULL, "gone"}]} : n \in 0..MaxGroups}

\* collections that differ in their rectangles
Rects == {<<0, 0, 3, 3>>, <<0, 0, 2, 3>>, <<0, 0, 3, 2>>, <<1, 1, 2, 2>>,
          <<0, 0, 2, 2>>, <<1, 0, 2, 3>>}

GeometryCollections ==
    UNION {{[i \in 1..n |-> Group(GroupId(i), rs[i][1], rs[i][2], rs[i][3], rs[i][4], NULL)] :
                rs \in [1..n -> Rects]} : n \in 0..MaxGroups}

NoCall == [fn |-> "none", child |-> NULL, parent |-> NULL,
           x |-> 0, y |-> 0, w |-> 0, h |-> 0, exclude |-> NULL]

ResolverIdle ==
    [pc |-> "idle", given |-> <<>>, groups |-> <<>>, items |-> <<>>, call |-> NoCall,
     ret |-> NullResult]

CallWouldCreateCircularReference ==
    /\ resolver.pc = "ready"
    /\ resolver.groups \in HierarchyCollections
    /\ \E child \in GroupIds \cup {"gone"}, parent \in GroupIds \cup {"gone"} :
           resolver' = [resolver EXCEPT
               !.pc = "returned",
               !.call = [NoCall EXCEPT !.fn = "wouldCreateCircularReference",
                                       !.child = child, !.parent = parent],
               !.ret = wouldCreateCircularReference(resolver.groups, child, parent)]
    /\ UNCHANGED <<codec, emitter, parser, boardVars>>

QueryCoords == 0..1
QuerySizes == 1..2

CallFindParentContainer ==
    /\ resolver.pc = "ready"
    /\ resolver.groups \in GeometryCollections
    /\ \E x \in QueryCoords, y \in QueryCoords, w \in QuerySizes, h \in QuerySizes,
          exclude \in {NULL, GroupId(1), GroupId(2)} :
           LET r == findParentContainer(resolver.groups, x, y, w, h, exclude)
           IN  resolver' = [resolver EXCEPT
                   !.pc = "returned",
                   !.call = [NoCall EXCEPT !.fn = "findParentContainer", !.x = x, !.y = y,
                                           !.w = w, !.h = h, !.exclude = exclude],
                   !.groups = r.containers,
                   !.ret = [threw |-> FALSE, value |-> r.found]]
    /\ UNCHANGED <<codec, emitter, parser, boardVars>>

CallIsItemInContainer ==
    /\ resolver.pc = "ready"
    /\ Len(resolver.groups) > 0
    /\ \E x \in QueryCoords, y \in QueryCoords, w \in QuerySizes, h \in QuerySizes :
           resolver' = [resolver EXCEPT
               !.pc = "returned",
               !.call = [NoCall EXCEPT !.fn = "isItemInContainer", !.x = x, !.y = y,
                                       !.w = w, !.h = h],
               !.ret = Ok(isItemInContainer(x, y, w, h, resolver.groups[1]))]
    /\ UNCHANGED <<codec, emitter, parser, boardVars>>

\* the Nodes of the board the descendants are collected on
ResolverNodeIds == <<"n1", "n2">>

CallGetAllChildrenOfContainer ==
    /\ resolver.pc = "ready"
    /\ resolver.groups \in HierarchyCollections
    /\ \E containerId \in GroupIds \cup {"gone"},
          parents \in [1..Len(ResolverNodeIds) -> GroupIds \cup {NULL}] :
           \E items \in {[i \in 1..Len(ResolverNodeIds) |->
                            [id |-> ResolverNodeIds[i], parentContainerId |-> parents[i]]]} :
               resolver' = [resolver EXCEPT
                   !.pc = "returned",
                   !.call = [NoCall EXCEPT !.fn = "getAllChildrenOfContainer",
                                           !.child = containerId],
                   !.items = items,
                   !.ret = getAllChildrenOfContainer(items, resolver.groups, containerId, 1)]
    /\ UNCHANGED <<codec, emitter, parser, boardVars>>

(***************************************************************************)
(* Resolver claims.  The reference definitions below are written from the  *)
(* meaning of "ancestor" and "contains", independently of the walk and of  *)
(* the sort in the code.                                                   *)
(***************************************************************************)
\* the ids one parent reference above the Groups named in S
ParentsOf(cs, S) ==
    {cs[i].parentContainerId : i \in {j \in 1..Len(cs) : cs[j].id \in S}} \ {NULL, UNDEF, ""}

RECURSIVE Closure(_, _, _)
Closure(cs, S, n) == IF n = 0 THEN S ELSE Closure(cs, S \cup ParentsOf(cs, S), n - 1)

\* every id reached from `id` by following one or more parent references
StrictAncestors(cs, id) == Closure(cs, ParentsOf(cs, {id}), Len(cs))

\* Data Model invariant: no Group is its own ancestor
Acyclic(cs) == \A i \in 1..Len(cs) : cs[i].id \notin StrictAncestors(cs, cs[i].id)

GetAllChildrenReturned ==
    resolver.pc = "returned" /\ resolver.call.fn = "getAllChildrenOfContainer"

\* whether following parent references from `parent` reaches `id`
Under(cs, parent, id) ==
    parent \notin {NULL, UNDEF, ""} /\ id \in {parent} \cup StrictAncestors(cs, parent)

\* arr holds no element twice
NoRepeat(arr) == \A i, j \in 1..Len(arr) : arr[i] = arr[j] => i = j

\* C21: on an acyclic hierarchy getAllChildrenOfContainer(groupId) terminates
\* and returns exactly the Nodes and Groups whose parentContainerId chain
\* reaches groupId, directly or through child Groups, each exactly once and
\* without groupId itself.
C21_DescendantsExact ==
    (GetAllChildrenReturned /\ Acyclic(resolver.groups)) =>
        /\ ~resolver.ret.threw
        /\ NoRepeat(resolver.ret.services) /\ NoRepeat(resolver.ret.containers)
        /\ {resolver.ret.services[i] : i \in 1..Len(resolver.ret.services)}
               = {resolver.items[i] : i \in
                     {j \in 1..Len(resolver.items) :
                         Under(resolver.groups, resolver.items[j].parentContainerId,
                               resolver.call.child)}}
        /\ {resolver.ret.containers[i] : i \in 1..Len(resolver.ret.containers)}
               = {resolver.groups[i] : i \in
                     {j \in 1..Len(resolver.groups) :
                         Under(resolver.groups, resolver.groups[j].parentContainerId,
                               resolver.call.child)}}
        /\ \A i \in 1..Len(resolver.ret.containers) :
               resolver.ret.containers[i].id # resolver.call.child

\* a Group with a child Group and a grandchild Group, a Node in the child
\* Group and a Node outside, collected
C21_Witness ==
    /\ GetAllChildrenReturned /\ Acyclic(resolver.groups)
    /\ Len(resolver.ret.containers) = 2
    /\ resolver.ret.containers[2].parentContainerId = resolver.ret.containers[1].id
    /\ resolver.ret.containers[1].parentContainerId = resolver.call.child
    /\ Len(resolver.ret.services) = 1
    /\ resolver.ret.services[1].parentContainerId = resolver.ret.containers[1].id

WouldCreateReturned ==
    resolver.pc = "returned" /\ resolver.call.fn = "wouldCreateCircularReference"

\* C6: on a hierarchy without cycles, wouldCreateCycle(child, parent) returns
\* true exactly when child equals parent or child is parent itself or one of
\* parent's ancestors, and false otherwise (dangling references included).
C6_WouldCreateCycleExact ==
    (WouldCreateReturned /\ Acyclic(resolver.groups)) =>
        resolver.ret = Ok(\/ resolver.call.child = resolver.call.parent
                          \/ resolver.call.child \in
                                StrictAncestors(resolver.groups, resolver.call.parent))

\* a chain g-parent -> middle -> child of two steps was walked and answered true
C6_Witness ==
    /\ WouldCreateReturned /\ Acyclic(resolver.groups)
    /\ resolver.ret = Ok(TRUE)
    /\ resolver.call.child # resolver.call.parent
    /\ resolver.call.child \notin ParentsOf(resolver.groups, {resolver.call.parent})
    /\ resolver.call.child \in StrictAncestors(resolver.groups, resolver.call.parent)

\* C7: for every Groups collection, dangling or cyclic ones included,
\* wouldCreateCycle and isContained return a boolean without raising.
C7_PredicatesTotal ==
    (resolver.pc = "returned"
        /\ resolver.call.fn \in {"wouldCreateCircularReference", "isItemInContainer"}) =>
        resolver.ret \in {Ok(TRUE), Ok(FALSE)}

\* supporting fact: the predicates are total on every collection without cycles
PredicatesTotalOnAcyclic ==
    (resolver.pc = "returned" /\ Acyclic(resolver.groups)
        /\ resolver.call.fn \in {"wouldCreateCircularReference", "isItemInContainer"}) =>
        resolver.ret \in {Ok(TRUE), Ok(FALSE)}

\* supporting fact: the call raises exactly when parent's chain enters a cycle
\* that does not pass through child
RaisesExactlyOnForeignCycle ==
    WouldCreateReturned =>
        (resolver.ret = Threw <=>
            /\ resolver.call.child # resolver.call.parent
            /\ resolver.call.child \notin StrictAncestors(resolver.groups, resolver.call.parent)
            /\ \E id \in StrictAncestors(resolver.groups, resolver.call.parent) \cup {resolver.call.parent} :
                   id \in StrictAncestors(resolver.groups, id))

\* the rectangle of the call lies inside Group g, edges touching allowed
Encloses(g, call) ==
    /\ g.x <= call.x /\ g.y <= call.y
    /\ call.x + call.w <= g.x + g.width /\ call.y + call.h <= g.y + g.height

Qualifying(cs, call) ==
    {i \in 1..Len(cs) : cs[i].id # call.exclude /\ Encloses(cs[i], call)}

FindParentReturned ==
    resolver.pc = "returned" /\ resolver.call.fn = "findParentContainer"

\* C9: findParent returns, among the Groups other than the excluded one that
\* enclose the rectangle, one of smallest area, the earliest in collection order
\* on a tie; null when none encloses it; and the collection keeps its order.
C9_FindParentSmallestEarliest ==
    FindParentReturned =>
        LET cs == resolver.given
            Q == Qualifying(cs, resolver.call)
        IN  /\ resolver.groups = cs
            /\ ~resolver.ret.threw
            /\ (Q = {} => resolver.ret.value = <<>>)
            /\ Q # {} => \E i \in Q :
                   /\ resolver.ret.value = <<cs[i]>>
                   /\ \A j \in Q : \/ Area(cs[i]) < Area(cs[j])
                                    \/ (Area(cs[i]) = Area(cs[j]) /\ i <= j)

\* the smallest enclosing Group is the excluded one, two further enclosing
\* Groups tie on area, and the earlier of the two was returned
C9_Witness ==
    /\ FindParentReturned
    /\ LET cs == resolver.given
           Q == Qualifying(cs, resolver.call)
       IN  /\ \E e \in 1..Len(cs) :
                 /\ cs[e].id = resolver.call.exclude
                 /\ Encloses(cs[e], resolver.call)
                 /\ \A q \in Q : Area(cs[e]) < Area(cs[q])
           /\ \E i \in Q, j \in Q :
                 /\ i < j
                 /\ Area(cs[i]) = Area(cs[j])
                 /\ cs[i].width # cs[j].width
                 /\ resolver.ret.value = <<cs[i]>>

(***************************************************************************)
(* The board (App.tsx).  Nodes are records with id, x, y, parentContainerId *)
(* and type; Groups add width and height; Edges have id, from, to, label.  *)
(* Name, color and the other display attributes are carried along          *)
(* unchanged by every handler below and are left out.                      *)
(***************************************************************************)
maxHistorySize == 50
baseGridSize == 80
baseServiceSize == 80

\* zoomLevel is 100 throughout: Math.round(base * (zoomLevel / 100))
gridSize == baseGridSize
serviceSize == baseServiceSize

BoardWidth == 320     \* boardRect.width
BoardHeight == 320    \* boardRect.height
MaxClock == 4         \* readings of Date.now() in one behaviour
MaxNodes == 1         \* Nodes on the board before another one is placed
MaxBoardGroups == 2   \* Groups on the board before another one is placed

Min(a, b) == IF a < b THEN a ELSE b
Max(a, b) == IF a > b THEN a ELSE b

\* Math.round(v / unit) * unit for integers: halves round up
RoundTo(v, unit) == ((2 * v + unit) \div (2 * unit)) * unit

\* snapToGridPosition (App.tsx:667-673), snapToGrid being on
snapToGridPosition(x, y) == [x |-> RoundTo(x, gridSize), y |-> RoundTo(y, gridSize)]

NoOp(name) == [name |-> name, arg |-> NULL]
Op(name, arg) == [name |-> name, arg |-> arg]

Snapshot(now) ==
    [boardItems |-> boardItems, containers |-> containers,
     connections |-> connections, timestamp |-> now]

\* variant: nothing is dropped from a full history
saveToHistoryUncapped(now) ==
    IF isUndoing THEN undoHistory ELSE Append(undoHistory, Snapshot(now))

\* saveToHistory (App.tsx:96-114): the history after the call
saveToHistory(now) ==
    IF isUndoing THEN undoHistory
    ELSE LET newHistory == Append(undoHistory, Snapshot(now))
         IN  IF Len(newHistory) > maxHistorySize
             THEN SubSeq(newHistory, Len(newHistory) - maxHistorySize + 1, Len(newHistory))
             ELSE newHistory

Ids(arr) == {arr[i].id : i \in 1..Len(arr)}

\* the palette entries that can be dragged onto the board (App.tsx:196-452)
PaletteServices == {"ec2"}
PaletteContainers == {"vpc"}

\* time has passed since the last reading of Date.now()
Tick == clock < MaxClock /\ clock' = clock + 1

\* a callback given to setTimeout(..., 0) runs before the next input event
NoTimerDue == timers = <<>>

\* handleDragStart (App.tsx:1111-1119), the service tool being selected
handleDragStart ==
    /\ NoTimerDue
    /\ \E service \in PaletteServices :
           /\ draggedItem' = <<("id" :> service @@ "type" :> "service")>>
           /\ lastOp' = NoOp("dragStart")
    /\ UNCHANGED <<boardItems, containers, connections, undoHistory, isUndoing,
                   connectionStart, timers, clock>>
    /\ UNCHANGED <<codec, resolver, emitter, parser>>

\* handleContainerDragStart (App.tsx:577-585), the container tool being selected
handleContainerDragStart ==
    /\ NoTimerDue
    /\ \E container \in PaletteContainers :
           /\ draggedItem' = <<("id" :> container @@ "type" :> "container")>>
           /\ lastOp' = NoOp("dragStart")
    /\ UNCHANGED <<boardItems, containers, connections, undoHistory, isUndoing,
                   connectionStart, timers, clock>>
    /\ UNCHANGED <<codec, resolver, emitter, parser>>

\* handleItemDragStart (App.tsx:1245-1266)
handleItemDragStart ==
    /\ NoTimerDue
    /\ \E i \in 1..Len(boardItems) :
           LET item == boardItems[i]
           IN  /\ item.type # "container"
               /\ Tick
               /\ undoHistory' = saveToHistory(clock')
               /\ draggedItem' = <<item>>
               /\ lastOp' = NoOp("dragStart")
    /\ UNCHANGED <<boardItems, containers, connections, isUndoing, connectionStart, timers>>
    /\ UNCHANGED <<codec, resolver, emitter, parser>>

\* handleExistingContainerDragStart (App.tsx:588-622): a Group that has
\* children is not dragged
handleExistingContainerDragStart ==
    /\ NoTimerDue
    /\ \E i \in 1..Len(containers) :
           LET container == containers[i]
               childrenInContainer ==
                   getAllChildrenOfContainer(boardItems, containers, container.id, 1)
           IN  /\ ~childrenInContainer.threw
               /\ ~(Len(childrenInContainer.services) > 0
                        \/ Len(childrenInContainer.containers) > 0)
               /\ Tick
               /\ undoHistory' = saveToHistory(clock')
               /\ draggedItem' = <<container>>
               /\ lastOp' = NoOp("dragStart")
    /\ UNCHANGED <<boardItems, containers, connections, isUndoing, connectionStart, timers>>
    /\ UNCHANGED <<codec, resolver, emitter, parser>>

\* what a run of a handler leaves behind: the state it set, whether it read
\* Date.now(), and the decision it took
Outcome(items, cs, history, dragged, newTimers, reads, op) ==
    [boardItems |-> items, containers |-> cs, undoHistory |-> history,
     draggedItem |-> dragged, timers |-> newTimers, reads |-> reads, op |-> op]

NewId(d, now) == d.id \o "-" \o ToString(now)

\* handleUnifiedDrop, service branch (App.tsx:1283-1318)
DropService(d, x, y, now) ==
    LET clampedX == Max(0, Min(x, BoardWidth - serviceSize))
        clampedY == Max(0, Min(y, BoardHeight - serviceSize))
        snapped == snapToGridPosition(clampedX, clampedY)
        finalX == snapped.x
        finalY == snapped.y
        parentContainer ==
            findParentContainer(containers, finalX, finalY, serviceSize, serviceSize, NULL).found
        isExisting == \E i \in 1..Len(boardItems) : boardItems[i].id = d.id
    IN  IF isExisting
        THEN Outcome(Map(boardItems, LAMBDA item :
                         IF item.id = d.id
                         THEN [item EXCEPT !.x = finalX, !.y = finalY,
                                           !.parentContainerId = IdOrNull(parentContainer)]
                         ELSE item),
                     containers, undoHistory, <<>>, timers, FALSE,
                     Op("moveService", d.id))
        ELSE Outcome(Append(boardItems,
                         [id |-> NewId(d, now), x |-> finalX, y |-> finalY,
                          parentContainerId |-> IdOrNull(parentContainer),
                          type |-> "service"]),
                     containers, saveToHistory(now), <<>>, timers, TRUE,
                     Op("placeService", NewId(d, now)))

\* variant: the refusal returns without ending the drag
RefuseDropKeepingDrag(d) ==
    Outcome(boardItems, containers, undoHistory, draggedItem, timers, FALSE,
            Op("dropRefused", d.id))

\* the refusal of a drop that would close a cycle (App.tsx:1344-1348)
RefuseDrop(d) ==
    Outcome(boardItems, containers, undoHistory, <<>>, timers, FALSE,
            Op("dropRefused", d.id))

\* handleUnifiedDrop, container branch (App.tsx:1319-1413)
DropContainer(d, x, y, now) ==
    LET containerWidth == IF TruthyNum(d, "width") THEN d.width ELSE gridSize * 3
        containerHeight == IF TruthyNum(d, "height") THEN d.height ELSE gridSize * 3
        clampedX == Max(0, Min(x, BoardWidth - containerWidth))
        clampedY == Max(0, Min(y, BoardHeight - containerHeight))
        snapped == snapToGridPosition(clampedX, clampedY)
        finalX == snapped.x
        finalY == snapped.y
        parentContainer ==
            findParentContainer(containers, finalX, finalY,
                                containerWidth, containerHeight, d.id).found
        circle == IF parentContainer = <<>> THEN Ok(FALSE)
                  ELSE wouldCreateCircularReference(containers, d.id, parentContainer[1].id)
        isExisting == \E i \in 1..Len(containers) : containers[i].id = d.id
        moved == Map(containers, LAMBDA container :
                     IF container.id = d.id
                     THEN [container EXCEPT !.x = finalX, !.y = finalY,
                                            !.parentContainerId = IdOrNull(parentContainer)]
                     ELSE container)
        allChildren == getAllChildrenOfContainer(boardItems, containers, d.id, 1)
        deltaX == finalX - d.x
        deltaY == finalY - d.y
        Shift(e) == LET snappedChild == snapToGridPosition(e.x + deltaX, e.y + deltaY)
                    IN  [e EXCEPT !.x = snappedChild.x, !.y = snappedChild.y]
    IN  IF circle.threw
        THEN Outcome(boardItems, containers, undoHistory, draggedItem, timers, FALSE,
                     Op("dropRaised", d.id))
        ELSE IF circle.value = <<TRUE>>
        THEN RefuseDrop(d)
        ELSE IF isExisting /\ allChildren.threw
        THEN Outcome(boardItems, moved, undoHistory, draggedItem, timers, FALSE,
                     Op("dropRaised", d.id))
        ELSE IF isExisting
        THEN Outcome(Map(boardItems, LAMBDA item :
                         IF item.id \in Ids(allChildren.services) THEN Shift(item) ELSE item),
                     Map(moved, LAMBDA container :
                         IF container.id \in Ids(allChildren.containers)
                         THEN Shift(container) ELSE container),
                     undoHistory, <<>>,
                     Append(timers, [kind |-> "adjustContainerSize", containerId |-> d.id,
                                     containers |-> containers, boardItems |-> boardItems]),
                     FALSE, Op("moveContainer", d.id))
        ELSE Outcome(boardItems,
                     Append(containers,
                         [id |-> NewId(d, now), x |-> finalX, y |-> finalY,
                          width |-> containerWidth, height |-> containerHeight,
                          parentContainerId |-> IdOrNull(parentContainer),
                          type |-> "container"]),
                     saveToHistory(now), <<>>, timers, TRUE,
                     Op("placeContainer", NewId(d, now)))

\* where a drop can land: e.clientX - boardRect.left - dragOffset.x, and y
DropPoints == {<<0, 0>>, <<200, 40>>}

\* handleUnifiedDrop (App.tsx:1268-1417).  No handler clears draggedItem when
\* a drag is abandoned, and a drag the handlers did not start (of a picture,
\* of selected text) also ends in this handler, so the drop may follow the
\* drag start at any distance.
handleUnifiedDrop ==
    /\ NoTimerDue
    /\ draggedItem # <<>>
    /\ \E pt \in DropPoints :
           LET d == draggedItem[1]
               r == IF d.type = "service" THEN DropService(d, pt[1], pt[2], clock + 1)
                    ELSE DropContainer(d, pt[1], pt[2], clock + 1)
           IN  /\ r.reads => clock < MaxClock
               /\ Len(r.boardItems) > Len(boardItems) => Len(boardItems) < MaxNodes
               /\ Len(r.containers) > Len(containers) => Len(containers) < MaxBoardGroups
               /\ clock' = IF r.reads THEN clock + 1 ELSE clock
               /\ boardItems' = r.boardItems
               /\ containers' = r.containers
               /\ undoHistory' = r.undoHistory
               /\ draggedItem' = r.draggedItem
               /\ timers' = r.timers
               /\ lastOp' = r.op
    /\ UNCHANGED <<connections, isUndoing, connectionStart>>
    /\ UNCHANGED <<codec, resolver, emitter, parser>>

\* Math.ceil(v / unit) * unit for integers
CeilTo(v, unit) == ((v + unit - 1) \div unit) * unit

MaxOf(S) == CHOOSE m \in S : \A n \in S : m >= n

Without(arr, i) == SubSeq(arr, 1, i - 1) \o SubSeq(arr, i + 1, Len(arr))

\* variant: the rectangle that holds the Group's rectangle and the padded
\* bounding box of its Nodes
unionSize(container, itemsInContainer) ==
    LET n == Len(itemsInContainer)
        minX == MinOf({itemsInContainer[j].x : j \in 1..n})
        minY == MinOf({itemsInContainer[j].y : j \in 1..n})
        maxX == MaxOf({itemsInContainer[j].x + serviceSize : j \in 1..n})
        maxY == MaxOf({itemsInContainer[j].y + serviceSize : j \in 1..n})
        padding == gridSize
        newX == Min(container.x, minX - padding)
        newY == Min(container.y, minY - padding)
        right == Max(Max(container.x + container.width, maxX + padding),
                     newX + gridSize * 3)
        bottom == Max(Max(container.y + container.height, maxY + padding),
                      newY + gridSize * 3)
    IN  [x |-> RoundTo(newX, gridSize), y |-> RoundTo(newY, gridSize),
         width |-> CeilTo(right - newX, gridSize),
         height |-> CeilTo(bottom - newY, gridSize)]

\* itemBounds, newX .. newHeight and snappedSize of adjustContainerSize
\* (App.tsx:682-713), snapToGrid being on
snappedSize(container, itemsInContainer) ==
    LET n == Len(itemsInContainer)
        minX == MinOf({itemsInContainer[j].x : j \in 1..n})
        minY == MinOf({itemsInContainer[j].y : j \in 1..n})
        maxX == MaxOf({itemsInContainer[j].x + serviceSize : j \in 1..n})
        maxY == MaxOf({itemsInContainer[j].y + serviceSize : j \in 1..n})
        padding == gridSize
        newX == Min(container.x, minX - padding)
        newY == Min(container.y, minY - padding)
        newWidth == Max(Max(container.width, maxX - newX + padding), gridSize * 3)
        newHeight == Max(Max(container.height, maxY - newY + padding), gridSize * 3)
    IN  [x |-> RoundTo(newX, gridSize), y |-> RoundTo(newY, gridSize),
         width |-> CeilTo(newWidth, gridSize),
         height |-> CeilTo(newHeight, gridSize)]

\* setContainers(prev => prev.map(...)) of adjustContainerSize (App.tsx:715-725)
resized(prev, containerId, size) ==
    Map(prev, LAMBDA c :
        IF c.id = containerId
        THEN [c EXCEPT !.x = size.x, !.y = size.y, !.width = size.width,
                       !.height = size.height]
        ELSE c)

\* adjustContainerSize (App.tsx:676-725) as the timer of line 1397 runs it:
\* `containers` and `boardItems` are those of the render that set the timer
adjustContainerSize ==
    \E k \in 1..Len(timers) :
        /\ timers[k].kind = "adjustContainerSize"
        /\ LET t == timers[k]
               containerId == t.containerId
               found == FindById(t.containers, containerId)
               itemsInContainer ==
                   SelectSeq(t.boardItems, LAMBDA item : item.parentContainerId = containerId)
           IN  IF found = <<>> \/ Len(itemsInContainer) = 0
               THEN /\ timers' = Without(timers, k)
                    /\ UNCHANGED containers
               ELSE
               \E size \in {snappedSize(found[1], itemsInContainer)} :
                   /\ containers' = resized(containers, containerId, size)
                   /\ timers' = IF size.x # found[1].x \/ size.y # found[1].y
                                THEN Without(timers, k) \o <<[t EXCEPT !.kind = "reassignParents"]>>
                                ELSE Without(timers, k)
        /\ lastOp' = NoOp("adjustContainerSize")
        /\ UNCHANGED <<boardItems, connections, draggedItem, undoHistory, isUndoing,
                       connectionStart, clock>>
        /\ UNCHANGED <<codec, resolver, emitter, parser>>

(***************************************************************************)
(* adjustContainerSize called on a Group and Nodes drawn from grid-aligned  *)
(* rectangles: Nodes inside the Group, at its corner, to its left, beyond   *)
(* its right edge, and Nodes of no Group.                                   *)
(***************************************************************************)
FitCollections ==
    {<<Group(GroupId(1), x, 80, w, 240, NULL)>> : x \in {80, 160}, w \in {240, 320}}

FitNodes ==
    {[id |-> "n", x |-> x, y |-> y, parentContainerId |-> parent] :
        x \in {0, 80, 160, 240, 400}, y \in {80, 160}, parent \in {GroupId(1), NULL}}

FitItems ==
    {<<>>} \cup {<<a>> : a \in FitNodes}
    \cup {<<[a EXCEPT !.id = "n1"], [b EXCEPT !.id = "n2"]>> : a \in FitNodes, b \in FitNodes}

CallAdjustContainerSize ==
    /\ resolver.pc = "ready"
    /\ resolver.groups \in FitCollections
    /\ \E items \in FitItems, containerId \in {GroupId(1), "gone"} :
           LET found == FindById(resolver.groups, containerId)
               itemsInContainer ==
                   SelectSeq(items, LAMBDA item : item.parentContainerId = containerId)
           IN  resolver' = [resolver EXCEPT
                   !.pc = "returned",
                   !.call = [NoCall EXCEPT !.fn = "adjustContainerSize",
                                           !.child = containerId],
                   !.items = items,
                   !.groups = IF found = <<>> \/ Len(itemsInContainer) = 0 THEN @
                              ELSE resized(@, containerId,
                                           snappedSize(found[1], itemsInContainer))]
    /\ UNCHANGED <<codec, emitter, parser, boardVars>>

AdjustReturned ==
    resolver.pc = "returned" /\ resolver.call.fn = "adjustContainerSize"

\* the direct child Nodes of the Group the call names
DirectChildren ==
    SelectSeq(resolver.items, LAMBDA item : item.parentContainerId = resolver.call.child)

\* the rectangle outer holds the rectangle at (x, y) of the given size
Holds(outer, x, y, w, h) ==
    /\ outer.x <= x /\ outer.y <= y
    /\ x + w <= outer.x + outer.width
    /\ y + h <= outer.y + outer.height

\* C22: for a Group with at least one direct child Node, adjustContainerSize
\* yields a rectangle that contains the whole rectangle the Group had before
\* the call and the rectangle of every direct child, and whose width and
\* height are never below the minimum size (three grid cells) nor below the
\* previous width and height.
C22_AutoFitUnion ==
    (AdjustReturned /\ resolver.call.child = GroupId(1) /\ Len(DirectChildren) > 0) =>
        LET old == resolver.given[1]
            new == resolver.groups[1]
        IN  /\ Holds(new, old.x, old.y, old.width, old.height)
            /\ \A i \in 1..Len(DirectChildren) :
                   Holds(new, DirectChildren[i].x, DirectChildren[i].y,
                         serviceSize, serviceSize)
            /\ new.width >= gridSize * 3 /\ new.height >= gridSize * 3
            /\ new.width >= old.width /\ new.height >= old.height

\* what the code guarantees: the new rectangle starts at or before the old
\* origin, holds every direct child with the padding around it, and is no
\* smaller than the old one or the minimum; the old right and bottom edges may
\* be given up
AutoFitHoldsChildren ==
    (AdjustReturned /\ resolver.call.child = GroupId(1) /\ Len(DirectChildren) > 0) =>
        LET old == resolver.given[1]
            new == resolver.groups[1]
        IN  /\ new.x <= old.x /\ new.y <= old.y
            /\ \A i \in 1..Len(DirectChildren) :
                   Holds(new, DirectChildren[i].x - gridSize, DirectChildren[i].y - gridSize,
                         serviceSize + 2 * gridSize, serviceSize + 2 * gridSize)
            /\ new.width >= gridSize * 3 /\ new.height >= gridSize * 3
            /\ new.width >= old.width /\ new.height >= old.height

\* a Group as wide as its minimum or wider whose only Node sits at its corner:
\* the origin moved left and up
C22_Witness ==
    /\ AdjustReturned /\ resolver.call.child = GroupId(1)
    /\ Len(DirectChildren) = 1
    /\ DirectChildren[1].x = resolver.given[1].x
    /\ DirectChildren[1].y = resolver.given[1].y
    /\ resolver.groups[1].x < resolver.given[1].x
    /\ resolver.groups[1].y < resolver.given[1].y

\* the timer adjustContainerSize sets when the Group moved (App.tsx:727-737);
\* its findParentContainer reads the `containers` of the same render
reassignParents ==
    \E k \in 1..Len(timers) :
        /\ timers[k].kind = "reassignParents"
        /\ boardItems' = Map(boardItems, LAMBDA item :
               IF item.parentContainerId = timers[k].containerId THEN item
               ELSE [item EXCEPT !.parentContainerId =
                        IdOrNull(findParentContainer(timers[k].containers, item.x, item.y,
                                                     serviceSize, serviceSize, NULL).found)])
        /\ timers' = Without(timers, k)
        /\ lastOp' = Op("reassignParents", timers[k].containerId)
        /\ UNCHANGED <<containers, connections, draggedItem, undoHistory, isUndoing,
                       connectionStart, clock>>
        /\ UNCHANGED <<codec, resolver, emitter, parser>>

\* only the Edges leaving the Node are dropped
connectionsNotFrom(conns, itemId) ==
    SelectSeq(conns, LAMBDA conn : conn.from # itemId)

\* prev.filter(conn => conn.from !== itemId && conn.to !== itemId) (App.tsx:1423)
connectionsWithout(conns, itemId) ==
    SelectSeq(conns, LAMBDA conn : conn.from # itemId /\ conn.to # itemId)

\* removeItem (App.tsx:1419-1425)
removeItem ==
    /\ NoTimerDue
    /\ \E itemId \in Ids(boardItems) :
           /\ Tick
           /\ undoHistory' = saveToHistory(clock')
           /\ boardItems' = SelectSeq(boardItems, LAMBDA item : item.id # itemId)
           /\ connections' = connectionsWithout(connections, itemId)
           /\ lastOp' = Op("removeItem", itemId)
    /\ UNCHANGED <<containers, draggedItem, isUndoing, connectionStart, timers>>
    /\ UNCHANGED <<codec, resolver, emitter, parser>>

\* removeContainer (App.tsx:1427-1444)
removeContainer ==
    /\ NoTimerDue
    /\ \E containerId \in Ids(containers) :
           LET allChildren == getAllChildrenOfContainer(boardItems, containers, containerId, 1)
               containerIdsToRemove == {containerId} \cup Ids(allChildren.containers)
           IN  /\ Tick
               /\ undoHistory' = saveToHistory(clock')
               /\ IF allChildren.threw
                  THEN UNCHANGED <<containers, boardItems>>
                  ELSE /\ containers' = SelectSeq(containers, LAMBDA container :
                                             container.id \notin containerIdsToRemove)
                       /\ boardItems' = Map(boardItems, LAMBDA item :
                              [item EXCEPT !.parentContainerId =
                                  IF item.id \in Ids(allChildren.services)
                                  THEN NULL ELSE item.parentContainerId])
               /\ lastOp' = Op("removeContainer", containerId)
    /\ UNCHANGED <<connections, draggedItem, isUndoing, connectionStart, timers>>
    /\ UNCHANGED <<codec, resolver, emitter, parser>>

\* removeConnection (App.tsx:1446-1451)
removeConnection ==
    /\ NoTimerDue
    /\ \E connectionId \in Ids(connections) :
           /\ Tick
           /\ undoHistory' = saveToHistory(clock')
           /\ connections' = SelectSeq(connections, LAMBDA conn : conn.id # connectionId)
           /\ lastOp' = Op("removeConnection", connectionId)
    /\ UNCHANGED <<boardItems, containers, draggedItem, isUndoing, connectionStart, timers>>
    /\ UNCHANGED <<codec, resolver, emitter, parser>>

\* clearBoard (App.tsx:1453-1469): the snapshot saveToHistory appends is dropped
\* by the setUndoHistory([]) that ends the handler
clearBoard ==
    /\ NoTimerDue
    /\ Tick
    /\ undoHistory' = <<>>
    /\ boardItems' = <<>>
    /\ containers' = <<>>
    /\ connections' = <<>>
    /\ connectionStart' = <<>>
    /\ lastOp' = NoOp("clearBoard")
    /\ UNCHANGED <<draggedItem, isUndoing, timers>>
    /\ UNCHANGED <<codec, resolver, emitter, parser>>

\* handleServiceClick (App.tsx:1123-1146), the click being a connection action
handleServiceClick ==
    /\ NoTimerDue
    /\ \E i \in 1..Len(boardItems) :
           LET service == boardItems[i]
           IN  IF connectionStart = <<>>
               THEN /\ connectionStart' = <<service>>
                    /\ lastOp' = NoOp("startConnection")
                    /\ UNCHANGED <<connections, undoHistory, clock>>
               ELSE /\ connectionStart[1].id # service.id
                    /\ Tick
                    /\ undoHistory' = saveToHistory(clock')
                    /\ connections' = Append(connections,
                           [id |-> "conn-" \o ToString(clock'),
                            from |-> connectionStart[1].id, to |-> service.id, label |-> ""])
                    /\ connectionStart' = <<>>
                    /\ lastOp' = Op("addConnection", "conn-" \o ToString(clock'))
    /\ UNCHANGED <<boardItems, containers, draggedItem, isUndoing, timers>>
    /\ UNCHANGED <<codec, resolver, emitter, parser>>

\* executeUndo (App.tsx:117-142); with an empty history it returns at once
executeUndo ==
    /\ NoTimerDue
    /\ IF Len(undoHistory) = 0
       THEN UNCHANGED <<boardItems, containers, connections, connectionStart,
                        undoHistory, isUndoing>>
       ELSE LET previousState == undoHistory[Len(undoHistory)]
            IN  /\ isUndoing' = TRUE
                /\ boardItems' = previousState.boardItems
                /\ containers' = previousState.containers
                /\ connections' = previousState.connections
                /\ connectionStart' = <<>>
                /\ undoHistory' = SubSeq(undoHistory, 1, Len(undoHistory) - 1)
    /\ lastOp' = NoOp("executeUndo")
    /\ UNCHANGED <<draggedItem, timers, clock>>
    /\ UNCHANGED <<codec, resolver, emitter, parser>>

\* the timer of executeUndo, 100 ms later (App.tsx:141).  Every executeUndo
\* sets one, so one is pending whenever isUndoing is true; one that runs
\* when isUndoing is already false changes nothing.
resetUndoing ==
    /\ isUndoing = TRUE
    /\ isUndoing' = FALSE
    /\ lastOp' = NoOp("resetUndoing")
    /\ UNCHANGED <<boardItems, containers, connections, draggedItem, undoHistory,
                   connectionStart, timers, clock>>
    /\ UNCHANGED <<codec, resolver, emitter, parser>>

(***************************************************************************)
(* Boards as a shared link or an import loads them (App.tsx:145-181,       *)
(* 1044-1104): each Group at top level or inside a neighbour in collection *)
(* order, without cycles; each Node inside the Group of its rank or at top *)
(* level; an Edge from each Node to the next.                              *)
(***************************************************************************)
MaxLoadedNodes == 3   \* Nodes in a loaded board
LoadTime == 2         \* readings of Date.now() before the board was loaded

LoadedGroups ==
    UNION {{[i \in 1..n |-> [id |-> GroupId(i), x |-> 0, y |-> 0,
                             width |-> gridSize * 3, height |-> gridSize * 3,
                             parentContainerId |-> parents[i], type |-> "container"]] :
               parents \in {q \in [1..n -> {GroupId(i) : i \in 1..n} \cup {NULL}] :
                               /\ \A i \in 1..n : q[i] \in {NULL, GroupId(i - 1), GroupId(i + 1)}
                               /\ Acyclic([i \in 1..n |->
                                              [id |-> GroupId(i), parentContainerId |-> q[i]]])}} :
           n \in 0..MaxGroups}

NodeId(i) == "n" \o ToString(i)

LoadedNodes(groups) ==
    UNION {{[i \in 1..m |-> [id |-> NodeId(i), x |-> 0, y |-> 0,
                             parentContainerId |-> parents[i], type |-> "service"]] :
               parents \in {q \in [1..m -> Ids(groups) \cup {NULL}] :
                               \A i \in 1..m : q[i] \in {NULL, GroupId(i)}}} :
           m \in 0..MaxLoadedNodes}

LoadedEdges(nodes) ==
    [i \in 1..Max(Len(nodes) - 1, 0) |->
        [id |-> "conn-" \o ToString(i - 1), from |-> nodes[i].id, to |-> nodes[i + 1].id,
         label |-> ""]]

BoardNext ==
    \/ handleDragStart
    \/ handleContainerDragStart
    \/ handleItemDragStart
    \/ handleExistingContainerDragStart
    \/ handleUnifiedDrop
    \/ adjustContainerSize
    \/ reassignParents
    \/ removeItem
    \/ removeContainer
    \/ executeUndo
    \/ resetUndoing

LoadedNext ==
    \/ clearBoard
    \/ removeItem
    \/ removeContainer
    \/ removeConnection
    \/ handleServiceClick
    \/ executeUndo
    \/ resetUndoing

(***************************************************************************)
(* Board claims                                                            *)
(***************************************************************************)
\* C5: from the empty board, after any sequence of placing, moving, removing
\* and undo, no Group is transitively its own ancestor through
\* parentContainerId.
C5_HierarchyAcyclic == Acyclic(containers)

\* a Group lies inside another one after an existing Group was moved there
C5_Witness ==
    /\ lastOp.name = "moveContainer"
    /\ \E i \in 1..Len(containers) :
           /\ containers[i].id = lastOp.arg
           /\ containers[i].parentContainerId \in Ids(containers)

\* C8: a drop of a Group that would create a cycle changes no Node, Group or
\* Edge, raises nothing, and ends the drag.
C8_CyclicDropIsNoOp ==
    [][lastOp'.name = "dropRefused" =>
          /\ boardItems' = boardItems
          /\ containers' = containers
          /\ connections' = connections
          /\ draggedItem # <<>> /\ draggedItem' = <<>>
          /\ timers' = timers]_vars

\* a drop was refused: the dragged Group is on the board, where it was, and
\* the Group enclosing the drop position is one of its descendants
C8_Witness ==
    /\ lastOp.name = "dropRefused"
    /\ draggedItem = <<>>
    /\ \E i \in 1..Len(containers), j \in 1..Len(containers) :
           /\ containers[i].id = lastOp.arg
           /\ containers[i].id \in StrictAncestors(containers, containers[j].id)

\* the state removeContainer started from, as it saved it to the history
Before == undoHistory[Len(undoHistory)]

\* the Groups parented, directly or through other Groups, under the Group id
Subtree(cs, id) == {c \in Ids(cs) : id \in StrictAncestors(cs, c)}

Keep(arr, Stays(_)) == SelectSeq(arr, Stays)

\* C10: removeContainer(g) removes g and every Group transitively parented
\* under it, sets parentContainerId to null on every Node that was directly or
\* transitively inside g, leaves no parentContainerId naming a removed Group,
\* and leaves the Nodes and Groups outside the subtree unchanged.
C10_RemoveContainerRemovesSubtree ==
    [][lastOp'.name = "removeContainer" =>
          LET g == lastOp'.arg
              removed == {g} \cup Subtree(containers, g)
          IN  /\ containers' = Keep(containers, LAMBDA c : c.id \notin removed)
              /\ Len(boardItems') = Len(boardItems)
              /\ \A i \in 1..Len(boardItems) :
                     boardItems'[i] =
                         IF boardItems[i].parentContainerId \in removed
                         THEN [boardItems[i] EXCEPT !.parentContainerId = NULL]
                         ELSE boardItems[i]
              /\ \A i \in 1..Len(boardItems') :
                     boardItems'[i].parentContainerId \notin removed
              /\ \A i \in 1..Len(containers') :
                     containers'[i].parentContainerId \notin removed
              /\ connections' = connections]_vars

\* a Group was removed that held a Group holding a Group, with a Node in the
\* middle one, while another Node stayed outside
C10_Witness ==
    /\ lastOp.name = "removeContainer"
    /\ ~isUndoing /\ Len(undoHistory) > 0
    /\ LET g == lastOp.arg
           was == Before.containers
       IN  /\ \E c \in Subtree(was, g) : Subtree(was, c) # {}
           /\ \E i \in 1..Len(Before.boardItems) :
                  /\ Before.boardItems[i].parentContainerId \in Subtree(was, g)
                  /\ boardItems[i].parentContainerId = NULL
           /\ \E i \in 1..Len(boardItems) :
                  /\ Before.boardItems[i].parentContainerId = NULL
                  /\ boardItems[i] = Before.boardItems[i]
           /\ containers = <<>>

Range(arr) == {arr[i] : i \in 1..Len(arr)}

\* C11: removeItem(n) removes every Edge whose from or to is n and no other
\* Edge (the remaining Edges keep their order), removes the Node n and leaves
\* every other Node and every Group unchanged.
C11_RemoveItemRemovesItsEdges ==
    [][lastOp'.name = "removeItem" =>
          LET n == lastOp'.arg
          IN  /\ \A e \in Range(connections) :
                     e \in Range(connections') <=> (e.from # n /\ e.to # n)
              /\ Range(connections') \subseteq Range(connections)
              /\ \A i, j \in 1..Len(connections') :
                     i < j => \E k, l \in 1..Len(connections) :
                                  /\ k < l
                                  /\ connections[k] = connections'[i]
                                  /\ connections[l] = connections'[j]
              /\ boardItems' = Keep(boardItems, LAMBDA item : item.id # n)
              /\ containers' = containers]_vars

\* a Node was removed that had an Edge leaving it and an Edge reaching it,
\* while an Edge between two other Nodes stayed
C11_Witness ==
    /\ lastOp.name = "removeItem"
    /\ ~isUndoing /\ Len(undoHistory) > 0
    /\ LET n == lastOp.arg
           was == Before.connections
       IN  /\ \E e \in Range(was) : e.from = n
           /\ \E e \in Range(was) : e.to = n
           /\ \E e \in Range(was) : e.from # n /\ e.to # n /\ e \in Range(connections)
           /\ \A e \in Range(connections) : e.from # n /\ e.to # n
           /\ Len(boardItems) = Len(Before.boardItems) - 1

(***************************************************************************)
(* The DSL and flowchart emitters (App.tsx:1472-1752).  The text copied to *)
(* the clipboard is kept as its sequence of lines; a line is a record of   *)
(* its indentation and of the parts the template string puts on it.        *)
(***************************************************************************)
UpperCase == <<"A", "B", "C", "D", "E", "F", "G", "H", "I", "J", "K", "L", "M",
               "N", "O", "P", "Q", "R", "S", "T", "U", "V", "W", "X", "Y", "Z">>
LowerCase == <<"a", "b", "c", "d", "e", "f", "g", "h", "i", "j", "k", "l", "m",
               "n", "o", "p", "q", "r", "s", "t", "u", "v", "w", "x", "y", "z">>
Digits == {"0", "1", "2", "3", "4", "5", "6", "7", "8", "9"}

\* [a-zA-Z0-9]
Alnum == {UpperCase[i] : i \in 1..26} \cup {LowerCase[i] : i \in 1..26} \cup Digits

\* id.replace(/[^a-zA-Z0-9]/g, '_')
RECURSIVE Sanitize(_)
Sanitize(s) ==
    IF Len(s) = 0 THEN ""
    ELSE (IF SubSeq(s, 1, 1) \in Alnum THEN SubSeq(s, 1, 1) ELSE "_")
             \o Sanitize(SubSeq(s, 2, Len(s)))

\* String.prototype.toLowerCase
RECURSIVE toLowerCase(_)
toLowerCase(s) ==
    IF Len(s) = 0 THEN ""
    ELSE LET ch == SubSeq(s, 1, 1)
             up == {i \in 1..26 : UpperCase[i] = ch}
         IN  (IF up = {} THEN ch ELSE LowerCase[CHOOSE i \in up : TRUE])
                 \o toLowerCase(SubSeq(s, 2, Len(s)))

\* String.prototype.includes
includes(s, part) ==
    \E i \in 1..(Len(s) - Len(part) + 1) : SubSeq(s, i, i + Len(part) - 1) = part

\* getEraserIconName (App.tsx:1472-1587), the rows of logoMap the model's
\* Nodes use
logoMap ==
    [n \in {"EC2", "S3", "Lambda", "GitHub"} |->
        CASE n = "EC2" -> "aws-ec2"
          [] n = "S3" -> "aws-simple-storage-service"
          [] n = "Lambda" -> "aws-lambda"
          [] n = "GitHub" -> "github"]

getEraserIconName(serviceName) ==
    IF serviceName \in DOMAIN logoMap THEN logoMap[serviceName] ELSE "aws-ec2"

\* item.customName || item.name
nodeName(item) == IF Truthy(Get(item, "customName")) THEN item.customName ELSE item.name

\* `${nodeId} [label: "${nodeName}", icon: ${iconName}]` (App.tsx:1598-1603, 1634-1639)
eraserNodeLine(item, depth) ==
    [kind |-> "node", indent |-> 2 * depth, id |-> Sanitize(item.id),
     label |-> nodeName(item), icon |-> getEraserIconName(item.name)]

\* the icon of a Group (App.tsx:1621-1629)
groupIcon(containerName, itemsInContainer) ==
    IF includes(toLowerCase(containerName), "aws") \/ includes(toLowerCase(containerName), "cloud")
    THEN "aws-cloud"
    ELSE IF includes(toLowerCase(containerName), "github") THEN "github"
    ELSE IF Len(itemsInContainer) > 0 THEN getEraserIconName(itemsInContainer[1].name)
    ELSE "aws-vpc"

RECURSIVE exportContainerRecursive(_, _, _, _)
RECURSIVE exportChildContainers(_, _, _, _)

\* the closing line written before the child Groups
closeBeforeChildContainers(items, cs, containerId, depth) ==
    LET found == SelectSeq(cs, LAMBDA c : c.id = containerId)
    IN  IF found = <<>> THEN <<>>
        ELSE LET container == found[1]
                 itemsInContainer ==
                     SelectSeq(items, LAMBDA item : item.parentContainerId = container.id)
                 childContainers ==
                     SelectSeq(cs, LAMBDA c : c.parentContainerId = container.id)
             IN  <<[kind |-> "open", indent |-> 2 * depth, id |-> Sanitize(container.id),
                    label |-> container.name,
                    icon |-> groupIcon(container.name, itemsInContainer)]>>
                 \o Map(itemsInContainer, LAMBDA item : eraserNodeLine(item, depth + 1))
                 \o <<[kind |-> "close", indent |-> 2 * depth]>>
                 \o exportChildContainers(items, cs, childContainers, depth + 1)

\* childContainers.forEach(childContainer => containerCode += ...) (App.tsx:1642-1644)
exportChildContainers(items, cs, childContainers, depth) ==
    IF childContainers = <<>> THEN <<>>
    ELSE exportContainerRecursive(items, cs, childContainers[1].id, depth)
             \o exportChildContainers(items, cs, Tail(childContainers), depth)

\* exportContainerRecursive (App.tsx:1610-1649)
exportContainerRecursive(items, cs, containerId, depth) ==
    LET found == SelectSeq(cs, LAMBDA c : c.id = containerId)
    IN  IF found = <<>> THEN <<>>
        ELSE LET container == found[1]
                 itemsInContainer ==
                     SelectSeq(items, LAMBDA item : item.parentContainerId = container.id)
                 childContainers ==
                     SelectSeq(cs, LAMBDA c : c.parentContainerId = container.id)
             IN  <<[kind |-> "open", indent |-> 2 * depth, id |-> Sanitize(container.id),
                    label |-> container.name,
                    icon |-> groupIcon(container.name, itemsInContainer)]>>
                 \o Map(itemsInContainer, LAMBDA item : eraserNodeLine(item, depth + 1))
                 \o exportChildContainers(items, cs, childContainers, depth + 1)
                 \o <<[kind |-> "close", indent |-> 2 * depth]>>

\* rootContainers.forEach(...) with the empty line after each (App.tsx:1652-1656)
RECURSIVE exportRootContainers(_, _, _)
exportRootContainers(items, cs, rootContainers) ==
    IF rootContainers = <<>> THEN <<>>
    ELSE exportContainerRecursive(items, cs, rootContainers[1].id, 0)
             \o <<[kind |-> "blank", indent |-> 0]>>
             \o exportRootContainers(items, cs, Tail(rootContainers))

\* connection.label && connection.label.trim()
hasLabel(connection) ==
    Truthy(Get(connection, "label")) /\ Trim(connection.label) # ""

\* an Edge line of either text (App.tsx:1661-1670, 1724-1731)
edgeLine(connection, indent) ==
    [kind |-> "edge", indent |-> indent,
     from |-> Sanitize(connection.from), to |-> Sanitize(connection.to),
     label |-> IF hasLabel(connection) THEN <<connection.label>> ELSE <<>>]

\* the eraser branch of exportMermaidToClipboard (App.tsx:1592-1672)
exportEraser(items, cs, conns) ==
    LET itemsNotInContainer ==
            SelectSeq(items, LAMBDA item : ~Truthy(Get(item, "parentContainerId")))
        rootContainers ==
            SelectSeq(cs, LAMBDA container : ~Truthy(Get(container, "parentContainerId")))
    IN  <<[kind |-> "direction", indent |-> 0], [kind |-> "blank", indent |-> 0]>>
        \o Map(itemsNotInContainer, LAMBDA item : eraserNodeLine(item, 0))
        \o (IF Len(itemsNotInContainer) > 0 THEN <<[kind |-> "blank", indent |-> 0]>> ELSE <<>>)
        \o exportRootContainers(items, cs, rootContainers)
        \o (IF Len(conns) > 0
            THEN <<[kind |-> "comment", indent |-> 0]>>
                     \o Map(conns, LAMBDA connection : edgeLine(connection, 0))
            ELSE <<>>)

\* `${nodeId}["${nodeName}"]` (App.tsx:1678-1682, 1700-1704)
flowchartNodeLine(item, indent) ==
    [kind |-> "node", indent |-> indent, id |-> Sanitize(item.id), label |-> nodeName(item)]

RECURSIVE exportFlowchartContainerRecursive(_, _, _, _)
RECURSIVE exportFlowchartChildContainers(_, _, _, _)

\* childContainers.forEach(...) (App.tsx:1707-1709)
exportFlowchartChildContainers(items, cs, childContainers, depth) ==
    IF childContainers = <<>> THEN <<>>
    ELSE exportFlowchartContainerRecursive(items, cs, childContainers[1].id, depth)
             \o exportFlowchartChildContainers(items, cs, Tail(childContainers), depth)

\* exportFlowchartContainerRecursive (App.tsx:1685-1714)
exportFlowchartContainerRecursive(items, cs, containerId, depth) ==
    LET found == SelectSeq(cs, LAMBDA c : c.id = containerId)
    IN  IF found = <<>> THEN <<>>
        ELSE LET container == found[1]
                 itemsInContainer ==
                     SelectSeq(items, LAMBDA item : item.parentContainerId = container.id)
                 childContainers ==
                     SelectSeq(cs, LAMBDA c : c.parentContainerId = container.id)
                 indent == 4 * depth
             IN  <<[kind |-> "blank", indent |-> 0],
                   [kind |-> "open", indent |-> indent, id |-> Sanitize(container.id),
                    label |-> container.name]>>
                 \o Map(itemsInContainer, LAMBDA item : flowchartNodeLine(item, indent + 4))
                 \o exportFlowchartChildContainers(items, cs, childContainers, depth + 1)
                 \o <<[kind |-> "close", indent |-> indent]>>

\* rootContainers.forEach(...) (App.tsx:1717-1720)
RECURSIVE exportFlowchartRootContainers(_, _, _)
exportFlowchartRootContainers(items, cs, rootContainers) ==
    IF rootContainers = <<>> THEN <<>>
    ELSE exportFlowchartContainerRecursive(items, cs, rootContainers[1].id, 1)
             \o exportFlowchartRootContainers(items, cs, Tail(rootContainers))

\* `style ${nodeId} fill:${color},...` (App.tsx:1736-1740)
styleLine(item) ==
    [kind |-> "style", indent |-> 4, id |-> Sanitize(item.id), color |-> item.color]

\* the flowchart branch of exportMermaidToClipboard (App.tsx:1673-1744)
exportFlowchart(items, cs, conns) ==
    LET itemsNotInContainer ==
            SelectSeq(items, LAMBDA item : ~Truthy(Get(item, "parentContainerId")))
        rootContainers ==
            SelectSeq(cs, LAMBDA container : ~Truthy(Get(container, "parentContainerId")))
    IN  <<[kind |-> "flowchart", indent |-> 0]>>
        \o Map(itemsNotInContainer, LAMBDA item : flowchartNodeLine(item, 4))
        \o exportFlowchartRootContainers(items, cs, rootContainers)
        \o (IF Len(conns) > 0
            THEN <<[kind |-> "blank", indent |-> 0], [kind |-> "comment", indent |-> 4]>>
                     \o Map(conns, LAMBDA connection : edgeLine(connection, 4))
            ELSE <<>>)
        \o <<[kind |-> "blank", indent |-> 0], [kind |-> "comment", indent |-> 4]>>
        \o Map(items, LAMBDA item : styleLine(item))

(***************************************************************************)
(* The Diagrams handed to the emitters: each Group at top level, inside    *)
(* the first Group, inside a neighbour in collection order or with a       *)
(* parent reference that names no Group (a link or an import loads the     *)
(* collections as they are, App.tsx:145-181, 1044-1104); each Node at top  *)
(* level, inside the Group of its rank or with such a reference; ids as    *)
(* the board generates them, `${type}-${Date.now()}`.                      *)
(***************************************************************************)
MaxEmitGroups == 3   \* Groups in an emitted Diagram
MaxEmitNodes == 2    \* Nodes in an emitted Diagram

EmitGroupId(i) == "vpc-" \o ToString(i)
EmitNodeId(i) == "ec2-" \o ToString(i)
Gone == "vpc-0"

EmitGroupNames == <<"AWS Cloud", "VPC", "GitHub Runners">>
EmitNodeNames == <<"EC2", "S3", "My Service">>
EmitNodeLabels == <<UNDEF, "web", UNDEF>>
EmitQuotedLabels == <<"the \"old\" web", UNDEF, "web">>
EmitNodeLabelTables == {EmitNodeLabels, EmitQuotedLabels}
EmitEdgeLabels == <<"calls", " ", "">>

Pick(table, i) == table[((i - 1) % Len(table)) + 1]

\* the Nodes renamed by the table: handleLabelSubmit (App.tsx:1153-1169)
Renamed(nodes, labels) ==
    [i \in 1..Len(nodes) |-> [nodes[i] EXCEPT !.customName = Pick(labels, i)]]

EmitGroups ==
    UNION {{[i \in 1..n |-> [id |-> EmitGroupId(i), name |-> Pick(EmitGroupNames, i),
                             parentContainerId |-> parents[i]]] :
               parents \in {q \in [1..n -> {EmitGroupId(i) : i \in 1..n} \cup {NULL, Gone}] :
                               \A i \in 1..n :
                                   q[i] \in {NULL, Gone, EmitGroupId(1), EmitGroupId(i - 1),
                                             EmitGroupId(i + 1)}}} :
           n \in 0..MaxEmitGroups}

EmitNodes(groups) ==
    UNION {{[i \in 1..m |-> [id |-> EmitNodeId(i), name |-> Pick(EmitNodeNames, i),
                             customName |-> Pick(EmitNodeLabels, i), color |-> "#FF9900",
                             parentContainerId |-> parents[i]]] :
               parents \in {q \in [1..m -> Ids(groups) \cup {NULL, Gone}] :
                               \A i \in 1..m :
                                   q[i] \in {NULL, Gone, EmitGroupId(i)}}} :
           m \in 0..MaxEmitNodes}

EmitEdges(nodes) ==
    [i \in 1..Max(Len(nodes) - 1, 0) |->
        [id |-> "conn-" \o ToString(i), from |-> nodes[i].id, to |-> nodes[i + 1].id,
         label |-> Pick(EmitEdgeLabels, i)]]

EmitterIdle ==
    [pc |-> "idle", boardItems |-> <<>>, containers |-> <<>>, connections |-> <<>>,
     exportFormat |-> "eraser", mermaidCode |-> <<>>]

ExportFormats == <<"eraser", "flowchart">>

\* the format button: setExportFormat(formats[nextIndex]) (App.tsx:2387-2391)
setExportFormat ==
    /\ emitter.pc # "idle"
    /\ LET currentIndex == CHOOSE i \in 1..2 : ExportFormats[i] = emitter.exportFormat
           nextIndex == (currentIndex % 2) + 1
       IN  emitter' = [emitter EXCEPT !.exportFormat = ExportFormats[nextIndex]]
    /\ UNCHANGED <<codec, resolver, parser, boardVars>>

\* exportMermaidToClipboard (App.tsx:1589-1762), the text it hands to the clipboard
exportMermaidToClipboard ==
    /\ emitter.pc # "idle"
    /\ emitter' = [emitter EXCEPT
           !.pc = "copied",
           !.mermaidCode =
               IF emitter.exportFormat = "eraser"
               THEN exportEraser(emitter.boardItems, emitter.containers, emitter.connections)
               ELSE exportFlowchart(emitter.boardItems, emitter.containers,
                                    emitter.connections)]
    /\ UNCHANGED <<codec, resolver, parser, boardVars>>

(***************************************************************************)
(* Emitter claims.  A closing line names no Group: it belongs to the       *)
(* opening line it balances.                                               *)
(***************************************************************************)
Copied == emitter.pc = "copied"
Code == emitter.mermaidCode

\* the lines of one kind that carry the sanitized id
LinesOf(kind, id) ==
    {p \in 1..Len(Code) : Code[p].kind = kind /\ Get(Code[p], "id") = Sanitize(id)}

OpenAt(id) == LinesOf("open", id)
NodeAt(id) == LinesOf("node", id)

CountKind(kind, p, q) == Cardinality({r \in p..q : Code[r].kind = kind})

\* the closing lines that balance the opening line p
ClosesOf(p) ==
    {q \in (p + 1)..Len(Code) :
        /\ Code[q].kind = "close"
        /\ CountKind("open", p, q) = CountKind("close", p, q)
        /\ \A r \in p..(q - 1) : CountKind("open", p, r) > CountKind("close", p, r)}

\* the Group's parent chain ends at a root Group
Rooted(cs, id) ==
    /\ StrictAncestors(cs, id) \subseteq Ids(cs)
    /\ \A a \in {id} \cup StrictAncestors(cs, id) : a \notin StrictAncestors(cs, a)

\* C12: in the text of either emitter every Group of the Groups collection
\* has exactly one opening line and exactly one closing line, whatever its
\* parentContainerId is.
C12_EveryGroupEmittedOnce ==
    Copied =>
        /\ \A i \in 1..Len(emitter.containers) :
               /\ Cardinality(OpenAt(emitter.containers[i].id)) = 1
               /\ \A p \in OpenAt(emitter.containers[i].id) : Cardinality(ClosesOf(p)) = 1
        /\ CountKind("close", 1, Len(Code)) = Len(emitter.containers)

\* the Groups the emitters write are those whose parent chain ends at a root
\* Group, each once; the others have no line
EmittedExactlyWhenRooted ==
    Copied =>
        /\ \A i \in 1..Len(emitter.containers) :
               LET id == emitter.containers[i].id
               IN  /\ Cardinality(OpenAt(id)) = IF Rooted(emitter.containers, id) THEN 1 ELSE 0
                   /\ \A p \in OpenAt(id) : Cardinality(ClosesOf(p)) = 1
        /\ CountKind("close", 1, Len(Code)) = CountKind("open", 1, Len(Code))

\* a Group whose parent is not in the collection was handed to an emitter
C12_Witness ==
    /\ Copied
    /\ \E i \in 1..Len(emitter.containers) :
           /\ emitter.containers[i].parentContainerId = Gone
           /\ OpenAt(emitter.containers[i].id) = {}

\* C13: in the text of either emitter the opening line of a Group comes
\* before the line of every Node and Group it transitively contains and its
\* closing line after all of them, and inside a Group the lines of its own
\* Nodes come before the opening lines of its child Groups.
C13_GroupEnclosesItsContents ==
    Copied =>
        \A i \in 1..Len(emitter.containers) :
            LET g == emitter.containers[i].id
                under == Subtree(emitter.containers, g)
            IN  \A p \in OpenAt(g) : \A q \in ClosesOf(p) :
                    /\ \A j \in 1..Len(emitter.boardItems) :
                           LET item == emitter.boardItems[j]
                           IN  item.parentContainerId \in {g} \cup under =>
                                   /\ NodeAt(item.id) # {}
                                   /\ \A r \in NodeAt(item.id) : p < r /\ r < q
                    /\ \A h \in under :
                           /\ OpenAt(h) # {}
                           /\ \A r \in OpenAt(h) :
                                  /\ p < r
                                  /\ ClosesOf(r) # {}
                                  /\ \A t \in ClosesOf(r) : t < q
                    /\ \A j \in 1..Len(emitter.boardItems), k \in 1..Len(emitter.containers) :
                           (/\ emitter.boardItems[j].parentContainerId = g
                            /\ emitter.containers[k].parentContainerId = g) =>
                               \A r \in NodeAt(emitter.boardItems[j].id) :
                                   \A t \in OpenAt(emitter.containers[k].id) : r < t

\* a Group holding a Node and a child Group that holds a Node and a Group of
\* its own was written by the flowchart emitter
C13_Witness ==
    /\ Copied
    /\ emitter.exportFormat = "flowchart"
    /\ \E i, k, l \in 1..Len(emitter.containers) : \E j, m \in 1..Len(emitter.boardItems) :
           LET g == emitter.containers[i].id
               h == emitter.containers[k].id
           IN  /\ emitter.containers[i].parentContainerId = NULL
               /\ emitter.containers[k].parentContainerId = g
               /\ emitter.containers[l].parentContainerId = h
               /\ emitter.boardItems[j].parentContainerId = g
               /\ emitter.boardItems[m].parentContainerId = h
               /\ \E p \in OpenAt(g) : \E q \in ClosesOf(p) :
                      \E r \in NodeAt(emitter.boardItems[m].id) : p < r /\ r < q

(***************************************************************************)
(* The DSL parser, parseEraserFormat (App.tsx:742-883), one line of the    *)
(* pasted text at a time.  The regular expressions are matched on the text *)
(* of the line, leftmost match first, as String.prototype.match does.      *)
(***************************************************************************)
Ch(s, i) == SubSeq(s, i, i)

\* \w and \s
Word == Alnum \cup {"_"}
Space == {" ", "\t"}

\* where a greedy run begun at i ends: of characters of the class, or (neg)
\* of characters outside it
RunEnd(s, i, class, neg) ==
    CHOOSE j \in i..(Len(s) + 1) :
        /\ j = Len(s) + 1 \/ ((Ch(s, j) \in class) = neg)
        /\ \A k \in i..(j - 1) : (Ch(s, k) \in class) # neg

\* the literal text at position i
StartsAt(s, i, lit) == i + Len(lit) - 1 <= Len(s) /\ SubSeq(s, i, i + Len(lit) - 1) = lit

\* String.prototype.startsWith
startsWith(s, lit) == StartsAt(s, 1, lit)

\* the parts of a regular expression, matched one after the other
Lit(text) == [op |-> "lit", text |-> text, class |-> {}]         \* text
Opt(text) == [op |-> "opt", text |-> text, class |-> {}]         \* text?
Star(class) == [op |-> "star", text |-> "", class |-> class]     \* class*
Plus(class) == [op |-> "plus", text |-> "", class |-> class]     \* (class+)
NotPlus(class) == [op |-> "notplus", text |-> "", class |-> class]   \* ([^class]+)
SpacesNotPlus(class) == [op |-> "spaces-notplus", text |-> "", class |-> class]
                                                                  \* \s*([^class]+)

Quote == "\""

\* (\w+)\s*\[label:\s*"([^"]+)",?\s*icon:\s*([^\]]+)\] (App.tsx:832)
itemRegex ==
    <<Plus(Word), Star(Space), Lit("[label:"), Star(Space), Lit(Quote), NotPlus({Quote}),
      Lit(Quote), Opt(","), Star(Space), Lit("icon:"), SpacesNotPlus({"]"}), Lit("]")>>

\* (\w+)\s*\[label:\s*"([^"]+)",?\s*icon:\s*([^\]]+)\]\s*\{ (App.tsx:765)
groupRegex == itemRegex \o <<Star(Space), Lit("{")>>

\* (\w+)\s*>\s*(\w+) and the optional (?:\s*:\s*"([^"]+)")? (App.tsx:862)
connectionRegex == <<Plus(Word), Star(Space), Lit(">"), Star(Space), Plus(Word)>>
connectionLabelRegex ==
    <<Star(Space), Lit(":"), Star(Space), Lit(Quote), NotPlus({Quote}), Lit(Quote)>>

\* the state of a match: where it stands in the text and what it captured
Cursor(pos) == [ok |-> TRUE, pos |-> pos, caps |-> <<>>]
NoMatch == [ok |-> FALSE, pos |-> 0, caps |-> <<>>]

Capture(s, st, from, to) ==
    [st EXCEPT !.pos = to, !.caps = Append(@, SubSeq(s, from, to - 1))]

\* one part of the expression matched at the cursor; every quantifier is
\* greedy, and \s* gives one character back when the run after it would
\* otherwise be empty
Step(s, step, st) ==
    CASE step.op = "lit" ->
             IF StartsAt(s, st.pos, step.text)
             THEN [st EXCEPT !.pos = @ + Len(step.text)] ELSE NoMatch
      [] step.op = "opt" ->
             IF StartsAt(s, st.pos, step.text)
             THEN [st EXCEPT !.pos = @ + Len(step.text)] ELSE st
      [] step.op = "star" -> [st EXCEPT !.pos = RunEnd(s, st.pos, step.class, FALSE)]
      [] step.op = "plus" ->
             IF RunEnd(s, st.pos, step.class, FALSE) > st.pos
             THEN Capture(s, st, st.pos, RunEnd(s, st.pos, step.class, FALSE)) ELSE NoMatch
      [] step.op = "notplus" ->
             IF RunEnd(s, st.pos, step.class, TRUE) > st.pos
             THEN Capture(s, st, st.pos, RunEnd(s, st.pos, step.class, TRUE)) ELSE NoMatch
      [] step.op = "spaces-notplus" ->
             LET g == RunEnd(s, st.pos, Space, FALSE)
                 h == RunEnd(s, g, step.class, TRUE)
             IN  IF h > g THEN Capture(s, st, g, h)
                 ELSE IF g > st.pos THEN Capture(s, st, g - 1, h)
                 ELSE NoMatch

RECURSIVE RunSteps(_, _, _, _)
RunSteps(s, regex, k, st) ==
    IF k > Len(regex) \/ ~st.ok THEN st
    ELSE RunSteps(s, regex, k + 1, Step(s, regex[k], st))

\* the places a match of (\w+)... can begin: where a run of \w begins
WordStarts(s) ==
    {i \in 1..Len(s) : Ch(s, i) \in Word /\ (i = 1 \/ Ch(s, i - 1) \notin Word)}

\* String.prototype.match without the g flag: the match at the leftmost
\* position that has one, or null
Match(s, regex) ==
    LET at == {i \in WordStarts(s) : RunSteps(s, regex, 1, Cursor(i)).ok}
    IN  IF at = {} THEN NoMatch
        ELSE RunSteps(s, regex, 1, Cursor(CHOOSE i \in at : \A j \in at : i <= j))

\* const [, groupId, groupName, iconName] = groupMatch (App.tsx:764-766)
groupMatchIn(s) ==
    LET m == Match(s, groupRegex)
    IN  IF m.ok THEN [ok |-> TRUE, id |-> m.caps[1], name |-> m.caps[2], icon |-> m.caps[3]]
        ELSE [ok |-> FALSE]

\* const [, itemId, itemName, iconName] = itemMatch (App.tsx:832-834)
itemMatchIn(s) ==
    LET m == Match(s, itemRegex)
    IN  IF m.ok THEN [ok |-> TRUE, id |-> m.caps[1], name |-> m.caps[2], icon |-> m.caps[3]]
        ELSE [ok |-> FALSE]

\* const [, fromId, toId, label] = connectionMatch (App.tsx:862-864)
connectionMatchIn(s) ==
    LET m == Match(s, connectionRegex)
        l == RunSteps(s, connectionLabelRegex, 1, [m EXCEPT !.caps = <<>>])
    IN  IF m.ok
        THEN [ok |-> TRUE, fromId |-> m.caps[1], toId |-> m.caps[2],
              label |-> IF l.ok THEN l.caps[1] ELSE UNDEF]
        ELSE [ok |-> FALSE]

(***************************************************************************)
(* The texts pasted into the import box, line by line: Group, Node and     *)
(* Edge lines as the DSL emitter writes them (indented inside a block),    *)
(* closing braces, comments, the direction directive, empty lines, an Edge *)
(* from a Group, an Edge to an identifier that is not defined, and a Group *)
(* line with an empty label.                                               *)
(***************************************************************************)
MaxParsed == 4         \* Groups, Nodes and Edges a parsed text yields, together
ParseTimes == {1}      \* readings of Date.now() during a parse

LinePool ==
    {"cloud [label: \"AWS Cloud\", icon: aws-cloud] {",
     "  vpc_1 [label: \"VPC\", icon: aws-vpc] {",
     "  }",
     "web [label: \"EC2\", icon: aws-ec2]",
     "    db [label: \"orders\", icon: aws-simple-storage-service]",
     "web > db",
     "db > web : \"reads\"",
     "cloud > web",
     "web > cache",
     "// Connections",
     "direction right",
     "",
     "broken [label: \"\", icon: aws-vpc] {"}

\* Math.random().toString(36).substr(2, 9)
RandomSuffixes == {"k3j9x2m1q"}

\* String.prototype.trim on the lines of the pool
Trimmed == [raw \in LinePool |-> Trim(raw)]

\* the branch of the loop body a line takes (App.tsx:758-861)
branchOf(line) ==
    IF startsWith(line, "//") \/ startsWith(line, "direction") THEN "skip"
    ELSE IF includes(line, "[") /\ includes(line, "icon:") /\ includes(line, "{") THEN "group"
    ELSE IF line = "}" THEN "close"
    ELSE IF includes(line, "[label:") /\ includes(line, "icon:") /\ ~includes(line, "{")
    THEN "item"
    ELSE IF includes(line, " > ") THEN "connection"
    ELSE "none"

\* the match the branch makes on the line
matchOf(line, branch) ==
    [branch |-> branch,
     match |-> CASE branch = "group" -> groupMatchIn(line)
                 [] branch = "item" -> itemMatchIn(line)
                 [] branch = "connection" -> connectionMatchIn(line)
                 [] OTHER -> [ok |-> FALSE]]

\* the tests and the match of the loop body on each line of the pool; they
\* depend on the line alone
Matched == [line \in {Trimmed[raw] : raw \in LinePool} |-> matchOf(line, branchOf(line))]

\* the kind, border and colour of a Group, from its label (App.tsx:770-805)
containerStyle(groupName) ==
    LET n == toLowerCase(groupName)
    IN  IF includes(n, "vpc")
        THEN [containerType |-> "vpc", borderStyle |-> "solid", color |-> "#FF6B6B"]
        ELSE IF includes(n, "subnet")
        THEN [containerType |-> "subnet", borderStyle |-> "dashed", color |-> "#94A3B8"]
        ELSE IF includes(n, "aws") \/ includes(n, "cloud")
        THEN [containerType |-> "aws-cloud", borderStyle |-> "solid", color |-> "#FF9900"]
        ELSE IF includes(n, "github")
        THEN [containerType |-> "github", borderStyle |-> "solid", color |-> "#374151"]
        ELSE IF includes(n, "on-premises") \/ includes(n, "on premises")
        THEN [containerType |-> "on-premises", borderStyle |-> "solid", color |-> "#6B7280"]
        ELSE IF includes(n, "data center") \/ includes(n, "datacenter")
        THEN [containerType |-> "data-center", borderStyle |-> "solid", color |-> "#374151"]
        ELSE IF includes(n, "corporate") \/ includes(n, "corp")
        THEN [containerType |-> "corporate-network", borderStyle |-> "dashed",
              color |-> "#4B5563"]
        ELSE IF includes(n, "rack")
        THEN [containerType |-> "server-rack", borderStyle |-> "dotted", color |-> "#6B7280"]
        ELSE IF includes(n, "network zone") \/ includes(n, "zone")
        THEN [containerType |-> "network-zone", borderStyle |-> "dashed", color |-> "#9CA3AF"]
        ELSE [containerType |-> "container", borderStyle |-> "solid", color |-> "#FF6B6B"]

\* the rows of labelServiceMap (App.tsx:889-929) and of iconMap
\* (App.tsx:936-1005) that the model's lines reach
labelServiceMap ==
    [n \in {"EC2", "S3", "VPC"} |->
        CASE n = "EC2" -> [id |-> "ec2", name |-> "EC2", color |-> "#FF9900",
                           category |-> "Compute"]
          [] n = "S3" -> [id |-> "s3", name |-> "S3", color |-> "#569A31",
                          category |-> "Storage"]
          [] n = "VPC" -> [id |-> "vpc", name |-> "VPC", color |-> "#FF6B6B",
                           category |-> "Networking"]]

iconMap ==
    [n \in {"aws-ec2", "aws-simple-storage-service", "aws-vpc"} |->
        CASE n = "aws-ec2" -> [id |-> "ec2", name |-> "EC2", color |-> "#FF9900",
                               category |-> "Compute"]
          [] n = "aws-simple-storage-service" ->
                 [id |-> "s3", name |-> "S3", color |-> "#569A31", category |-> "Storage"]
          [] n = "aws-vpc" -> [id |-> "vpc", name |-> "VPC", color |-> "#FF6B6B",
                               category |-> "Networking"]]

\* getServiceFromIcon (App.tsx:886-1008)
getServiceFromIcon(iconName, labelName) ==
    IF labelName # "" /\ labelName \in DOMAIN labelServiceMap
    THEN labelServiceMap[labelName]
    ELSE IF iconName \in DOMAIN iconMap
    THEN iconMap[iconName]
    ELSE [id |-> "unknown", name |-> IF labelName # "" THEN labelName ELSE "Unknown Service",
          color |-> "#6B7280", category |-> "Other"]

\* the id of the outermost open Group instead of the innermost
BottomId(groupStack) ==
    IF Len(groupStack) > 0 /\ Truthy(groupStack[1].id) THEN groupStack[1].id ELSE NULL

\* parentContainer?.id || null
TopId(groupStack) ==
    IF Len(groupStack) > 0 /\ Truthy(groupStack[Len(groupStack)].id)
    THEN groupStack[Len(groupStack)].id ELSE NULL

\* Map.prototype.set
MapSet(map, key, value) == (key :> value) @@ map

\* whether Map.prototype.get returns an object rather than undefined
MapHas(map, key) == key \in DOMAIN map

\* Map.prototype.get
MapGet(map, key) == IF key \in DOMAIN map THEN map[key] ELSE UNDEF

\* const newContainer = {...}; the three pushes (App.tsx:807-821)
pushContainer(p, m, style, now) ==
    LET depth == Len(p.groupStack)
        newContainer ==
            [id |-> "container-" \o ToString(p.containerCounter) \o "-" \o ToString(now),
             name |-> m.name, color |-> style.color, borderStyle |-> style.borderStyle,
             x |-> 100 + depth * 60, y |-> 100 + depth * 60,
             width |-> Max(400 - depth * 40, 240), height |-> Max(320 - depth * 40, 180),
             parentContainerId |-> TopId(p.groupStack), type |-> "container"]
    IN  [p EXCEPT !.containerCounter = @ + 1,
                  !.containers = Append(@, newContainer),
                  !.groupStack = Append(@, newContainer),
                  !.containerIdMap = MapSet(@, m.id, newContainer)]

\* the body of `for (const line of lines)` for a Group line (App.tsx:763-823)
parseGroupLine(p, m, now) ==
    IF m.ok THEN pushContainer(p, m, containerStyle(m.name), now) ELSE p

\* the body for a closing brace (App.tsx:825-829)
parseClosingLine(p) ==
    IF Len(p.groupStack) > 0
    THEN [p EXCEPT !.groupStack = SubSeq(@, 1, Len(@) - 1)]
    ELSE p

\* variant: the Node's id is built from the service and the time alone
pushItemUncounted(p, m, serviceInfo, now) ==
    LET itemCounter == p.itemCounter + 1
        depth == Len(p.groupStack)
        item ==
            [id |-> serviceInfo.id \o "-" \o ToString(now),
             name |-> serviceInfo.name,
             customName |-> IF m.name # serviceInfo.name THEN m.name ELSE UNDEF,
             color |-> serviceInfo.color, category |-> serviceInfo.category,
             x |-> 180 + (itemCounter % 4) * 100 + depth * 30,
             y |-> 180 + (itemCounter \div 4) * 100 + depth * 30,
             parentContainerId |-> TopId(p.groupStack), type |-> "service"]
    IN  [p EXCEPT !.itemCounter = itemCounter,
                  !.items = Append(@, item),
                  !.itemIdMap = MapSet(@, m.id, item)]

\* const uniqueId = ...; const item = {...}; the two pushes (App.tsx:840-857)
pushItem(p, m, serviceInfo, now) ==
    LET itemCounter == p.itemCounter + 1
        depth == Len(p.groupStack)
        item ==
            [id |-> serviceInfo.id \o "-" \o ToString(p.itemCounter) \o "-" \o ToString(now),
             name |-> serviceInfo.name,
             customName |-> IF m.name # serviceInfo.name THEN m.name ELSE UNDEF,
             color |-> serviceInfo.color, category |-> serviceInfo.category,
             x |-> 180 + (itemCounter % 4) * 100 + depth * 30,
             y |-> 180 + (itemCounter \div 4) * 100 + depth * 30,
             parentContainerId |-> TopId(p.groupStack), type |-> "service"]
    IN  [p EXCEPT !.itemCounter = itemCounter,
                  !.items = Append(@, item),
                  !.itemIdMap = MapSet(@, m.id, item)]

\* the body for a Node line (App.tsx:831-859)
parseItemLine(p, m, now) ==
    IF m.ok THEN pushItem(p, m, getServiceFromIcon(Trim(m.icon), m.name), now) ELSE p

\* an Edge line whose endpoints are resolved through the tables of Nodes and of
\* Groups alike
parseConnectionLineAnyId(p, m, now, random) ==
    IF m.ok /\ MapHas(p.itemIdMap @@ p.containerIdMap, m.fromId)
            /\ MapHas(p.itemIdMap @@ p.containerIdMap, m.toId)
    THEN [p EXCEPT !.connections = Append(@,
             [id |-> "conn-" \o ToString(now) \o "-" \o random,
              from |-> MapGet(p.itemIdMap @@ p.containerIdMap, m.fromId).id,
              to |-> MapGet(p.itemIdMap @@ p.containerIdMap, m.toId).id,
              label |-> IF Truthy(m.label) THEN m.label ELSE ""])]
    ELSE p

\* the body for an Edge line (App.tsx:861-879)
parseConnectionLine(p, m, now, random) ==
    IF m.ok /\ MapHas(p.itemIdMap, m.fromId) /\ MapHas(p.itemIdMap, m.toId)
    THEN [p EXCEPT !.connections = Append(@,
             [id |-> "conn-" \o ToString(now) \o "-" \o random,
              from |-> MapGet(p.itemIdMap, m.fromId).id,
              to |-> MapGet(p.itemIdMap, m.toId).id,
              label |-> IF Truthy(m.label) THEN m.label ELSE ""])]
    ELSE p

\* the branch taken with its match
parseMatched(p, a, now, random) ==
    CASE a.branch = "group" -> parseGroupLine(p, a.match, now)
      [] a.branch = "close" -> parseClosingLine(p)
      [] a.branch = "item" -> parseItemLine(p, a.match, now)
      [] a.branch = "connection" -> parseConnectionLine(p, a.match, now, random)
      [] OTHER -> p

\* one turn of the loop over the trimmed, non-empty lines (App.tsx:756-880)
parseLine(p, line, now, random) ==
    parseMatched(p, IF line \in DOMAIN Matched THEN Matched[line]
                    ELSE matchOf(line, branchOf(line)), now, random)

\* ' '.repeat(n)
RECURSIVE Spaces(_)
Spaces(n) == IF n = 0 THEN "" ELSE " " \o Spaces(n - 1)

\* a line of the eraser text as its template literal writes it
\* (App.tsx:1594, 1602, 1631, 1638, 1646, 1659, 1665-1667)
eraserLineText(l) ==
    CASE l.kind = "direction" -> "direction right"
      [] l.kind = "blank" -> ""
      [] l.kind = "comment" -> "// Connections"
      [] l.kind = "node" ->
             Spaces(l.indent) \o l.id \o " [label: " \o Quote \o l.label \o Quote
                 \o ", icon: " \o l.icon \o "]"
      [] l.kind = "open" ->
             Spaces(l.indent) \o l.id \o " [label: " \o Quote \o l.label \o Quote
                 \o ", icon: " \o l.icon \o "] {"
      [] l.kind = "close" -> Spaces(l.indent) \o "}"
      [] l.kind = "edge" ->
             l.from \o " > " \o l.to
                 \o (IF l.label # <<>> THEN " : " \o Quote \o l.label[1] \o Quote ELSE "")

\* the lines joined by the "\n" that ends each of them
RECURSIVE JoinLines(_)
JoinLines(lines) ==
    IF lines = <<>> THEN "" ELSE lines[1] \o "\n" \o JoinLines(Tail(lines))

\* parseEraserFormat (App.tsx:742-883) on a whole text, given as the lines
\* split('\n') cuts it into: trim, drop the empty lines, one turn per line
RECURSIVE parseEraserFormat(_, _, _, _)
parseEraserFormat(p, lines, now, random) ==
    IF lines = <<>> THEN p
    ELSE parseEraserFormat(IF Len(Trim(lines[1])) > 0
                           THEN parseLine(p, Trim(lines[1]), now, random) ELSE p,
                           Tail(lines), now, random)

(***************************************************************************)
(* detectFormat (App.tsx:1011-1035) on texts pasted into the import box     *)
(***************************************************************************)
DiagramJson == "{\"version\":\"1.0\",\"boardItems\":[]}"
AwsDiagramJson ==
    "{\"version\":\"1.0\",\"boardItems\":[{\"id\":\"aws-ec2\"}],\"containers\":[]}"
VersionOnlyJson == "{\"version\":\"1.0\"}"
ItemsOnlyJson == "{\"boardItems\":[]}"
CutJson == "{\"version\":\"1.0\",\"boardItems\":["
CutAwsJson == "{\"version\":\"1.0\",\"boardItems\":[{\"id\":\"aws-ec2\"}"

JsonTexts == {DiagramJson, AwsDiagramJson, " " \o DiagramJson \o "\n"}
OtherJsonTexts == {VersionOnlyJson, ItemsOnlyJson, "null", "42", "[]"}
DslTexts ==
    {"direction right", "web [label: \"EC2\", icon: aws-ec2]", "Group vpc",
     "x [icon: server]", "cloud { icon: y", "aws-lambda", "git-branch", CutAwsJson,
     "cloud [label: \"AWS Cloud\", icon: cloud] {\n  web [label: \"EC2\", icon: ec2]\n}"}
PlainTexts ==
    {"hello world", "flowchart TD", "[label: only", "icon: only", "{", "Group", CutJson}
BlankTexts == {"", "   ", "\n\t "}

ImportTexts == JsonTexts \cup OtherJsonTexts \cup DslTexts \cup PlainTexts \cup BlankTexts

\* JSON.parse (App.tsx:1015) on the texts above: the top-level members that
\* detectFormat reads, of the texts that are JSON
JSONparseImport(text) ==
    CASE Trim(text) = DiagramJson ->
             Ok(JsObject([version |-> "1.0", boardItems |-> <<>>]))
      [] Trim(text) = AwsDiagramJson ->
             Ok(JsObject([version |-> "1.0", boardItems |-> <<[id |-> "aws-ec2"]>>,
                          containers |-> <<>>]))
      [] Trim(text) = VersionOnlyJson -> Ok(JsObject([version |-> "1.0"]))
      [] Trim(text) = ItemsOnlyJson -> Ok(JsObject([boardItems |-> <<>>]))
      [] Trim(text) = "null" -> Ok(JsNull)
      [] Trim(text) \in {"42", "[]"} -> Ok(JsNumber)
      [] OTHER -> Threw

\* the test of the try block (App.tsx:1015-1018); reading a property of null
\* throws, and the catch swallows every throw
looksLikeJson(text) ==
    LET parsed == JSONparseImport(text)
    IN  /\ ~parsed.threw
        /\ parsed.value[1].type = "object"
        /\ Truthy(Get(parsed.value[1].obj, "version"))
        /\ "boardItems" \in DOMAIN parsed.value[1].obj

\* the substrings of the eraser test (App.tsx:1024-1030)
looksLikeEraser(text) ==
    \/ includes(text, "direction right")
    \/ (includes(text, "[label:") /\ includes(text, "icon:"))
    \/ includes(text, "Group ")
    \/ includes(text, "[icon:")
    \/ (includes(text, "{") /\ includes(text, "icon:"))
    \/ includes(text, "aws-")
    \/ includes(text, "git-branch")

\* variant: the eraser test comes first
detectFormatEraserFirst(text) ==
    IF Trim(text) = "" THEN "unknown"
    ELSE IF looksLikeEraser(text) THEN "eraser"
    ELSE IF looksLikeJson(text) THEN "json"
    ELSE "unknown"

detectFormat(text) ==
    IF Trim(text) = "" THEN "unknown"
    ELSE IF looksLikeJson(text) THEN "json"
    ELSE IF looksLikeEraser(text) THEN "eraser"
    ELSE "unknown"

ParserIdle ==
    [pc |-> "idle", line |-> "", now |-> 1, items |-> <<>>, containers |-> <<>>,
     connections |-> <<>>, groupStack |-> <<>>, itemCounter |-> 0,
     containerCounter |-> 0, itemIdMap |-> <<>>, containerIdMap |-> <<>>,
     text |-> "", format |-> "none"]

\* parseEraserFormat, one line: mermaidText.split('\n').map(line => line.trim())
\* .filter(line => line.length > 0) and one turn of the loop (App.tsx:743, 756-880)
parseEraserFormatLine ==
    /\ parser.pc = "reading"
    /\ \E raw \in LinePool, now \in {t \in ParseTimes : t >= parser.now}, random \in RandomSuffixes :
           \E p \in {IF Len(Trimmed[raw]) > 0
                      THEN parseLine(parser, Trimmed[raw], now, random) ELSE parser} :
               /\ Len(p.containers) + Len(p.items) + Len(p.connections) <= MaxParsed
               /\ parser' = [p EXCEPT !.line = raw, !.now = now]
    /\ UNCHANGED <<codec, resolver, emitter, boardVars>>

\* return { items, containers, connections } (App.tsx:882)
parseEraserFormatReturn ==
    /\ parser.pc = "reading"
    /\ parser' = [parser EXCEPT !.pc = "returned"]
    /\ UNCHANGED <<codec, resolver, emitter, boardVars>>

\* handleImportTextChange (App.tsx:1038-1041): the pasted text is classified
handleImportTextChange ==
    /\ parser.pc = "reading"
    /\ parser.format = "none"
    /\ parser.line = "" /\ parser.items = <<>> /\ parser.containers = <<>>
    /\ \E text \in ImportTexts :
           parser' = [parser EXCEPT !.pc = "detected", !.text = text,
                                    !.format = detectFormat(text)]
    /\ UNCHANGED <<codec, resolver, emitter, boardVars>>

ParserNext ==
    \/ handleImportTextChange
    \/ parseEraserFormatLine
    \/ parseEraserFormatReturn

\* executeImport (App.tsx:1044-1104) on the eraser text just copied, pasted into
\* the import box as it is, with the parse kept beside the board
executeImport ==
    /\ emitter.pc = "copied"
    /\ emitter.mermaidCode[1].kind = "direction"
    /\ parser.pc = "idle"
    /\ \E lines \in {Map(emitter.mermaidCode, eraserLineText)} :
           /\ Trim(JoinLines(lines)) # ""
           /\ detectFormat(JoinLines(lines)) = "eraser"
           /\ Tick
           /\ \E random \in RandomSuffixes :
               \E p \in {parseEraserFormat([ParserIdle EXCEPT !.pc = "reading"],
                                           lines, clock', random)} :
                  /\ parser' = [p EXCEPT !.pc = "imported", !.text = JoinLines(lines),
                                         !.format = "eraser", !.now = clock']
                  /\ boardItems' = p.items
                  /\ containers' = p.containers
                  /\ connections' = p.connections
           /\ undoHistory' = saveToHistory(clock')
           /\ connectionStart' = <<>>
           /\ lastOp' = NoOp("executeImport")
    /\ UNCHANGED <<draggedItem, isUndoing, timers>>
    /\ UNCHANGED <<codec, resolver, emitter>>

EmitterNext ==
    \/ setExportFormat
    \/ exportMermaidToClipboard

RoundTripNext ==
    \/ setExportFormat
    \/ exportMermaidToClipboard
    \/ executeImport

(***************************************************************************)
(* The lines of the pool as a reader of the DSL understands them             *)
(***************************************************************************)
\* the lines that open a Group, with the identifier they declare
GroupLines ==
    ("cloud [label: \"AWS Cloud\", icon: aws-cloud] {" :> "cloud")
    @@ ("  vpc_1 [label: \"VPC\", icon: aws-vpc] {" :> "vpc_1")

\* the lines that define a Node, with the identifier and the label they declare
NodeLines ==
    ("web [label: \"EC2\", icon: aws-ec2]" :> [id |-> "web", label |-> "EC2"])
    @@ ("    db [label: \"orders\", icon: aws-simple-storage-service]"
           :> [id |-> "db", label |-> "orders"])

\* the lines that consist of a closing brace
ClosingLines == {"  }"}

\* the edge lines, with their two identifiers and their quoted label
EdgeLines ==
    ("web > db" :> [from |-> "web", to |-> "db", label |-> ""])
    @@ ("db > web : \"reads\"" :> [from |-> "db", to |-> "web", label |-> "reads"])
    @@ ("cloud > web" :> [from |-> "cloud", to |-> "web", label |-> ""])
    @@ ("web > cache" :> [from |-> "web", to |-> "cache", label |-> ""])

\* a step of the parse that reads one line
ReadsLine == parser.pc = "reading" /\ parser'.pc = "reading"

\* the id of the innermost Group open in a parse state, null when none is
InnermostOpen(p) ==
    IF p.groupStack = <<>> THEN NULL ELSE p.groupStack[Len(p.groupStack)].id

\* the open Groups are Groups of the result, each nested in the one opened
\* before it
OpenGroupsNested(p) ==
    \A i \in 1..Len(p.groupStack) :
        /\ p.groupStack[i] \in Range(p.containers)
        /\ p.groupStack[i].parentContainerId =
               IF i = 1 THEN NULL ELSE p.groupStack[i - 1].id

\* arr with its last element removed
Front(arr) == SubSeq(arr, 1, Len(arr) - 1)

\* C14: every Group and every Node the parser creates gets as parentContainerId
\* the id of the innermost Group open at its line, or null when none is open; a
\* closing-brace line closes the innermost open Group, and a closing brace met
\* when no Group is open changes nothing.
C14_ParentIsInnermostOpenGroup ==
    [][ReadsLine =>
         /\ OpenGroupsNested(parser')
         /\ parser'.line \in DOMAIN GroupLines =>
                /\ Len(parser'.containers) = Len(parser.containers) + 1
                /\ Front(parser'.containers) = parser.containers
                /\ parser'.containers[Len(parser'.containers)].parentContainerId
                       = InnermostOpen(parser)
                /\ parser'.groupStack
                       = Append(parser.groupStack,
                                parser'.containers[Len(parser'.containers)])
                /\ parser'.items = parser.items
         /\ parser'.line \in DOMAIN NodeLines =>
                /\ Len(parser'.items) = Len(parser.items) + 1
                /\ Front(parser'.items) = parser.items
                /\ parser'.items[Len(parser'.items)].parentContainerId
                       = InnermostOpen(parser)
                /\ parser'.groupStack = parser.groupStack
                /\ parser'.containers = parser.containers
         /\ parser'.line \in ClosingLines =>
                /\ parser'.groupStack =
                       IF parser.groupStack = <<>> THEN <<>> ELSE Front(parser.groupStack)
                /\ parser'.containers = parser.containers
                /\ parser'.items = parser.items
                /\ parser'.connections = parser.connections
         /\ parser'.line \notin DOMAIN GroupLines \cup DOMAIN NodeLines \cup ClosingLines =>
                /\ parser'.groupStack = parser.groupStack
                /\ parser'.containers = parser.containers
                /\ parser'.items = parser.items
    ]_vars

\* a Node inside a Group nested in another Group, a Node outside every Group
\* defined after both Groups were closed, and one more closing brace read
C14_Witness ==
    /\ parser.line \in ClosingLines
    /\ parser.groupStack = <<>>
    /\ \E i, j \in 1..Len(parser.items), g, h \in 1..Len(parser.containers) :
           /\ parser.items[i].parentContainerId = parser.containers[h].id
           /\ parser.containers[h].parentContainerId = parser.containers[g].id
           /\ parser.containers[g].parentContainerId = NULL
           /\ parser.items[j].parentContainerId = NULL

\* the name a Node is displayed under
Display(item) == IF item.customName # UNDEF THEN item.customName ELSE item.name

\* the Nodes of a parse state that a line with the identifier defined
DefinedAs(p, id) ==
    {i \in 1..Len(p.items) :
        \E raw \in DOMAIN NodeLines :
            NodeLines[raw].id = id /\ Display(p.items[i]) = NodeLines[raw].label}

\* C15: the parser produces an Edge for an edge line exactly when both
\* identifiers were defined as Nodes on earlier lines, and skips the line
\* otherwise; the Edge runs between the generated ids of those Nodes and carries
\* the quoted label or an empty one; every Edge of the result joins Nodes of
\* the result; Edges, Nodes and Groups appear in first-seen order.
C15_EdgeExactlyWhenBothNodesDefined ==
    [][ReadsLine =>
         /\ parser'.line \in DOMAIN EdgeLines =>
                LET e == EdgeLines[parser'.line]
                    from == DefinedAs(parser, e.from)
                    to == DefinedAs(parser, e.to)
                IN  IF from # {} /\ to # {}
                    THEN /\ Len(parser'.connections) = Len(parser.connections) + 1
                         /\ Front(parser'.connections) = parser.connections
                         /\ LET c == parser'.connections[Len(parser'.connections)]
                            IN  /\ c.from = parser.items[MaxOf(from)].id
                                /\ c.to = parser.items[MaxOf(to)].id
                                /\ c.label = e.label
                    ELSE parser'.connections = parser.connections
         /\ parser'.line \notin DOMAIN EdgeLines =>
                parser'.connections = parser.connections
         /\ \A c \in Range(parser'.connections) :
                c.from \in Ids(parser'.items) /\ c.to \in Ids(parser'.items)
         /\ \E n \in 0..1 : SubSeq(parser'.items, 1, Len(parser'.items) - n) = parser.items
         /\ \E n \in 0..1 :
                SubSeq(parser'.containers, 1, Len(parser'.containers) - n)
                    = parser.containers
    ]_vars

\* a labelled Edge between two defined Nodes, then an edge line naming a Group
\* skipped
C15_Witness ==
    /\ parser.line = "cloud > web"
    /\ "cloud" \in DOMAIN parser.containerIdMap
    /\ "web" \in DOMAIN parser.itemIdMap
    /\ Len(parser.connections) = 1
    /\ parser.connections[1].label = "reads"
    /\ parser.connections[1].from # parser.connections[1].to

ParentOnBoard(item) ==
    IdOrNull(findParentContainer(containers, item.x, item.y,
                                 serviceSize, serviceSize, NULL).found)

\* C25: once the deferred step that follows an autoFit which moved a Group's
\* origin has run, every Node outside that Group has as parentContainerId the
\* Group findParent selects on the Groups' geometry after the resize.
C25_ReassignOnResizedGeometry ==
    [][lastOp'.name = "reassignParents" /\ timers' # timers =>
          \A i \in 1..Len(boardItems) :
              boardItems[i].parentContainerId # lastOp'.arg
                  => boardItems'[i].parentContainerId = ParentOnBoard(boardItems[i])]_vars

\* the deferred step ran and left a Node outside the resized Group with a
\* parent other than the one the resized geometry selects
C25_Witness ==
    /\ lastOp.name = "reassignParents"
    /\ \E i \in 1..Len(boardItems) :
           boardItems[i].parentContainerId # ParentOnBoard(boardItems[i])
    /\ \E j \in 1..Len(containers) : containers[j].id = lastOp.arg

\* C26: the k-th Node defined in a text, k counted from 0, is placed at
\* x = 180 + (k mod 4) * 100 + depth * 30 and y = 180 + (k div 4) * 100 + depth * 30,
\* depth being the number of Groups open at its line, so that the first Node of
\* a text lands in column 0, row 0.
C26_NodeOnGridByOrdinal ==
    [][ReadsLine /\ parser'.line \in DOMAIN NodeLines =>
          LET k == Len(parser.items)
              depth == Len(parser.groupStack)
              item == parser'.items[Len(parser'.items)]
          IN  /\ Len(parser'.items) = k + 1
              /\ item.x = 180 + (k % 4) * 100 + depth * 30
              /\ item.y = 180 + (k \div 4) * 100 + depth * 30
    ]_vars

\* four Nodes read outside every Group: the first stands in column 1 of row 0
\* and the fourth in column 0 of row 1
C26_Witness ==
    /\ parser.pc = "reading"
    /\ parser.containers = <<>>
    /\ Len(parser.items) = 4
    /\ parser.items[1].x = 280 /\ parser.items[1].y = 180
    /\ parser.items[4].x = 180 /\ parser.items[4].y = 280

\* C27: in every state reached through the interactive operations, the from
\* and the to of every Edge name Nodes that are on the board; a connection begun
\* on a Node that is removed before the second click leaves no Edge that names
\* the removed Node.
C27_EdgesNameNodesOnBoard ==
    \A i \in 1..Len(connections) :
        /\ connections[i].from \in Ids(boardItems)
        /\ connections[i].to \in Ids(boardItems)

\* the second click completed a connection whose first Node had been removed
C27_Witness ==
    /\ lastOp.name = "addConnection"
    /\ \E i \in 1..Len(connections) :
           /\ connections[i].id = lastOp.arg
           /\ connections[i].from \notin Ids(boardItems)
           /\ connections[i].to \in Ids(boardItems)

WellFormedDiagram ==
    /\ \A i \in 1..Len(emitter.containers) :
           emitter.containers[i].parentContainerId \in Ids(emitter.containers) \cup {NULL}
    /\ Acyclic(emitter.containers)
    /\ \A i \in 1..Len(emitter.boardItems) :
           emitter.boardItems[i].parentContainerId \in Ids(emitter.containers) \cup {NULL}
    /\ \A i \in 1..Len(emitter.connections) :
           /\ emitter.connections[i].from \in Ids(emitter.boardItems)
           /\ emitter.connections[i].to \in Ids(emitter.boardItems)

\* what the parser built from the line that carries the id of a Node or of a
\* Group of the Diagram: its image in the parse
NodeImage(id) == MapGet(parser.itemIdMap, Sanitize(id))
GroupImage(id) == MapGet(parser.containerIdMap, Sanitize(id))

\* the id of the image of a parent reference
ParentImage(parent) == IF parent = NULL THEN NULL ELSE GroupImage(parent).id

\* the parse has as many Nodes, Groups and Edges as the Diagram, every Node and
\* Group has an image of its own that stands under the image of its parent,
\* and the Edges, in their order, join the images of their Nodes under their
\* labels
SameDiagram ==
    /\ Len(parser.items) = Len(emitter.boardItems)
    /\ Len(parser.containers) = Len(emitter.containers)
    /\ Len(parser.connections) = Len(emitter.connections)
    /\ \A i \in 1..Len(emitter.boardItems) :
           LET item == emitter.boardItems[i]
           IN  /\ NodeImage(item.id) \in Range(parser.items)
               /\ NodeImage(item.id).parentContainerId = ParentImage(item.parentContainerId)
               /\ \A j \in 1..Len(emitter.boardItems) :
                      NodeImage(emitter.boardItems[j].id) = NodeImage(item.id) => i = j
    /\ \A i \in 1..Len(emitter.containers) :
           LET container == emitter.containers[i]
           IN  /\ GroupImage(container.id) \in Range(parser.containers)
               /\ GroupImage(container.id).parentContainerId
                      = ParentImage(container.parentContainerId)
               /\ \A j \in 1..Len(emitter.containers) :
                      GroupImage(emitter.containers[j].id) = GroupImage(container.id) => i = j
    /\ \A i \in 1..Len(emitter.connections) :
           /\ parser.connections[i].from = NodeImage(emitter.connections[i].from).id
           /\ parser.connections[i].to = NodeImage(emitter.connections[i].to).id
           /\ parser.connections[i].label = emitter.connections[i].label

\* C29: for every Diagram whose hierarchy is a forest and whose Edges join
\* Nodes of the Diagram, parsing the text the DSL emitter writes gives as many
\* Nodes, Groups and Edges, each Node and Group under the image of its parent,
\* and the same Edge endpoints and labels.
C29_EmitThenParse ==
    parser.pc = "imported" /\ WellFormedDiagram => SameDiagram

\* no name of the Diagram holds a double quote
PlainNames ==
    /\ \A i \in 1..Len(emitter.boardItems) :
           ~includes(nodeName(emitter.boardItems[i]), Quote)
    /\ \A i \in 1..Len(emitter.containers) : ~includes(emitter.containers[i].name, Quote)

\* the same for the Diagrams whose names hold no double quote
EmitThenParsePlainNames ==
    parser.pc = "imported" /\ WellFormedDiagram /\ PlainNames => SameDiagram

\* a forest of two nested Groups and two Nodes joined by an Edge, one Node
\* renamed to a text with a quoted word, was written and read back, and the
\* parse has one Node only
C29_Witness ==
    /\ parser.pc = "imported"
    /\ WellFormedDiagram
    /\ Len(emitter.containers) = 2
    /\ emitter.containers[2].parentContainerId = emitter.containers[1].id
    /\ Len(emitter.boardItems) = 2
    /\ emitter.boardItems[2].parentContainerId = emitter.containers[2].id
    /\ includes(nodeName(emitter.boardItems[1]), Quote)
    /\ Len(emitter.connections) = 1
    /\ Len(parser.items) = 1
    /\ Len(parser.connections) = 0

\* the operations that save the board before they change it
RecordingOps == {"removeItem", "removeContainer", "removeConnection", "addConnection"}

\* the newest entry of a history
Newest(history) == history[Len(history)]

\* C30: an operation that records history leaves on top of the history the
\* Nodes, Groups and Edges of just before it, and executeUndo puts back what is
\* on top and takes it off, so that the operation followed at once by
\* executeUndo restores the three collections and leaves one entry fewer;
\* executeUndo on an empty history changes nothing; the history never holds
\* more than 50 entries.
C30_UndoRestores ==
    /\ [](Len(undoHistory) <= 50)
    /\ [][/\ lastOp'.name \in RecordingOps /\ ~isUndoing =>
                /\ undoHistory' # <<>>
                /\ Newest(undoHistory').boardItems = boardItems
                /\ Newest(undoHistory').containers = containers
                /\ Newest(undoHistory').connections = connections
                /\ Front(undoHistory') =
                       IF Len(undoHistory) < 50 THEN undoHistory ELSE Tail(undoHistory)
          /\ lastOp'.name = "executeUndo" /\ undoHistory # <<>> =>
                /\ boardItems' = Newest(undoHistory).boardItems
                /\ containers' = Newest(undoHistory).containers
                /\ connections' = Newest(undoHistory).connections
                /\ undoHistory' = Front(undoHistory)
          /\ lastOp'.name = "executeUndo" /\ undoHistory = <<>> =>
                UNCHANGED <<boardItems, containers, connections, undoHistory>>
       ]_vars

\* two removals were made on a history that was full or one short of it, so
\* that its oldest entry was dropped, and the second removal was undone: the
\* board is as it was before the second removal and the history holds the
\* entries it held then
C30_Witness ==
    /\ lastOp.name = "executeUndo"
    /\ isUndoing
    /\ Len(undoHistory) = 49
    /\ undoHistory[1].timestamp = LoadTime - 48
    /\ Newest(undoHistory).timestamp = LoadTime + 1
    /\ Len(boardItems) = 1
    /\ clock = LoadTime + 2

(***************************************************************************)
(* Specifications                                                          *)
(***************************************************************************)
CodecInit ==
    /\ \E d \in Diagrams : codec = [CodecIdle EXCEPT !.pc = "input", !.data = d]
    /\ resolver = ResolverIdle
    /\ emitter = EmitterIdle
    /\ parser = ParserIdle
    /\ boardItems = <<>> /\ containers = <<>> /\ connections = <<>>
    /\ draggedItem = <<>> /\ undoHistory = <<>> /\ isUndoing = FALSE
    /\ connectionStart = <<>> /\ timers = <<>>
    /\ clock = 0 /\ lastOp = NoOp("none")

CodecSpec == CodecInit /\ [][CodecNext]_vars

ResolverNext ==
    \/ CallGetAllChildrenOfContainer
    \/ CallWouldCreateCircularReference
    \/ CallFindParentContainer
    \/ CallIsItemInContainer
    \/ CallAdjustContainerSize

ResolverInit ==
    /\ \E g \in HierarchyCollections \cup GeometryCollections \cup FitCollections :
           resolver = [ResolverIdle EXCEPT !.pc = "ready", !.given = g, !.groups = g]
    /\ codec = CodecIdle
    /\ emitter = EmitterIdle
    /\ parser = ParserIdle
    /\ boardItems = <<>> /\ containers = <<>> /\ connections = <<>>
    /\ draggedItem = <<>> /\ undoHistory = <<>> /\ isUndoing = FALSE
    /\ connectionStart = <<>> /\ timers = <<>>
    /\ clock = 0 /\ lastOp = NoOp("none")

ResolverSpec == ResolverInit /\ [][ResolverNext]_vars

\* the board as the page opens it without a shared link: empty (App.tsx:43-50, 86-87)
Init ==
    /\ codec = CodecIdle
    /\ resolver = ResolverIdle
    /\ emitter = EmitterIdle
    /\ parser = ParserIdle
    /\ boardItems = <<>> /\ containers = <<>> /\ connections = <<>>
    /\ draggedItem = <<>> /\ undoHistory = <<>> /\ isUndoing = FALSE
    /\ connectionStart = <<>> /\ timers = <<>>
    /\ clock = 0 /\ lastOp = NoOp("none")

Next == BoardNext

Spec == Init /\ [][Next]_vars

\* the board after a shared link or an import was loaded
LoadedInit ==
    /\ codec = CodecIdle
    /\ resolver = ResolverIdle
    /\ emitter = EmitterIdle
    /\ parser = ParserIdle
    /\ \E groups \in LoadedGroups : \E nodes \in LoadedNodes(groups) :
           /\ containers = groups
           /\ boardItems = nodes
           /\ connections = LoadedEdges(nodes)
    /\ draggedItem = <<>> /\ undoHistory = <<>> /\ isUndoing = FALSE
    /\ connectionStart = <<>> /\ timers = <<>>
    /\ clock = LoadTime /\ lastOp = NoOp("none")

LoadedSpec == LoadedInit /\ [][LoadedNext]_vars

\* loaded boards whose Group holds one Node at its corner while another Node
\* stands near its right edge, recorded inside the Group or in no Group
ArrangedNodes ==
    {<<[id |-> NodeId(1), x |-> 0, y |-> 0, parentContainerId |-> GroupId(1),
        type |-> "service"],
       [id |-> NodeId(2), x |-> x, y |-> gridSize, parentContainerId |-> parent,
        type |-> "service"]>> :
        x \in {gridSize, 2 * gridSize, 3 * gridSize}, parent \in {GroupId(1), NULL}}

\* such a board, the drag handlers, the timers and undo at work on it
ArrangedInit ==
    /\ codec = CodecIdle
    /\ resolver = ResolverIdle
    /\ emitter = EmitterIdle
    /\ parser = ParserIdle
    /\ containers = <<[id |-> GroupId(1), x |-> 0, y |-> 0,
                       width |-> gridSize * 3, height |-> gridSize * 3,
                       parentContainerId |-> NULL, type |-> "container"]>>
    /\ boardItems \in ArrangedNodes
    /\ connections = <<>>
    /\ draggedItem = <<>> /\ undoHistory = <<>> /\ isUndoing = FALSE
    /\ connectionStart = <<>> /\ timers = <<>>
    /\ clock = LoadTime /\ lastOp = NoOp("none")

ArrangedSpec == ArrangedInit /\ [][BoardNext]_vars

EmitterInit ==
    /\ \E groups \in EmitGroups : \E nodes \in EmitNodes(groups) :
           emitter = [EmitterIdle EXCEPT !.pc = "ready", !.boardItems = nodes,
                                         !.containers = groups,
                                         !.connections = EmitEdges(nodes)]
    /\ codec = CodecIdle
    /\ resolver = ResolverIdle
    /\ parser = ParserIdle
    /\ boardItems = <<>> /\ containers = <<>> /\ connections = <<>>
    /\ draggedItem = <<>> /\ undoHistory = <<>> /\ isUndoing = FALSE
    /\ connectionStart = <<>> /\ timers = <<>>
    /\ clock = 0 /\ lastOp = NoOp("none")

EmitterSpec == EmitterInit /\ [][EmitterNext]_vars

\* a Diagram on the board, some of its Nodes renamed, about to be copied as
\* text and imported again
RoundTripInit ==
    /\ \E groups \in EmitGroups : \E nodes \in EmitNodes(groups) :
       \E labels \in EmitNodeLabelTables :
           emitter = [EmitterIdle EXCEPT !.pc = "ready",
                                         !.boardItems = Renamed(nodes, labels),
                                         !.containers = groups,
                                         !.connections = EmitEdges(nodes)]
    /\ codec = CodecIdle
    /\ resolver = ResolverIdle
    /\ parser = ParserIdle
    /\ boardItems = <<>> /\ containers = <<>> /\ connections = <<>>
    /\ draggedItem = <<>> /\ undoHistory = <<>> /\ isUndoing = FALSE
    /\ connectionStart = <<>> /\ timers = <<>>
    /\ clock = 0 /\ lastOp = NoOp("none")

RoundTripSpec == RoundTripInit /\ [][RoundTripNext]_vars

\* a board of one Group, two Nodes and an Edge whose history is empty, one short
\* of full, or full: the snapshots of earlier handlers, oldest first, each with
\* the time it was taken at, counted back from the present
PastSnapshots(items, cs, conns, n) ==
    [i \in 1..n |-> [boardItems |-> items, containers |-> cs, connections |-> conns,
                     timestamp |-> LoadTime - n + i - 1]]

HistoryInit ==
    /\ codec = CodecIdle
    /\ resolver = ResolverIdle
    /\ emitter = EmitterIdle
    /\ parser = ParserIdle
    /\ containers = <<[id |-> GroupId(1), x |-> 0, y |-> 0,
                       width |-> gridSize * 3, height |-> gridSize * 3,
                       parentContainerId |-> NULL, type |-> "container"]>>
    /\ boardItems = <<[id |-> NodeId(1), x |-> 0, y |-> 0,
                       parentContainerId |-> GroupId(1), type |-> "service"],
                      [id |-> NodeId(2), x |-> 0, y |-> 0,
                       parentContainerId |-> NULL, type |-> "service"]>>
    /\ connections = LoadedEdges(boardItems)
    /\ \E n \in {0, maxHistorySize - 1, maxHistorySize} :
           undoHistory = PastSnapshots(SubSeq(boardItems, 1, 1), containers, <<>>, n)
    /\ draggedItem = <<>> /\ isUndoing = FALSE
    /\ connectionStart = <<>> /\ timers = <<>>
    /\ clock = LoadTime /\ lastOp = NoOp("none")

HistorySpec == HistoryInit /\ [][LoadedNext]_vars

ParserInit ==
    /\ parser = [ParserIdle EXCEPT !.pc = "reading"]
    /\ codec = CodecIdle
    /\ resolver = ResolverIdle
    /\ emitter = EmitterIdle
    /\ boardItems = <<>> /\ containers = <<>> /\ connections = <<>>
    /\ draggedItem = <<>> /\ undoHistory = <<>> /\ isUndoing = FALSE
    /\ connectionStart = <<>> /\ timers = <<>>
    /\ clock = 0 /\ lastOp = NoOp("none")

ParserSpec == ParserInit /\ [][ParserNext]_vars

====
